---- MODULE Spec2Model ----
(***************************************************************************)
(* Model of the Lattice core: the verified state machine (core/lib.rs),    *)
(* the Raft node (core/raft.rs) and the integrated node                    *)
(* (core/distributed.rs).                                                  *)
(***************************************************************************)
EXTENDS Integers, Sequences, FiniteSets, TLC

(***************************************************************************)
(* Bounds of the model.                                                    *)
(***************************************************************************)
NumKeys == 2
NumValues == 2
NumNodes == 3
MaxTerm == 2
MaxExec == 3
MaxElections == 2
MaxInbox == 1
MaxInboundTerm == 1
MaxLeaderTerm == 2
MaxLog == 3
MaxDelivered == 1
MaxAppends == 3
MaxCrashes == 1
MaxSaves == 3
MaxRecovers == 2
MaxLogged == 2
MaxSnapshots == 1

\* the handlers an event loop runs before the model stops it
MaxRounds == 2

\* the nodes of ClusterConfig::three_node_cluster
ClusterSize == 3

Keys == 1..NumKeys
Values == 1..NumValues
Nodes == 1..NumNodes
Terms == 1..MaxTerm
Servers == 1..ClusterSize

\* the node whose DistributedNode is modelled
Self == 1

\* Option<NodeId>::None
NoNode == 0

VARIABLES
    \* VerifiedStateMachine (core/lib.rs)
    verification_enabled,   \* VerifiedStateMachine.verification_enabled
    runtime_state,          \* VerifiedStateMachine.runtime_state
    shadow_model,           \* VerifiedStateMachine.shadow_model (ShadowModel.state)
    last_transition,        \* the argument of the last execute call
    state_before,           \* the live state the last execute call started from
    last_result,            \* what the last execute call returned
    calls                   \* number of execute calls made so far

vsmVars == <<verification_enabled, runtime_state, shadow_model,
             last_transition, state_before, last_result, calls>>

VARIABLES
    \* the cluster of RaftNodes (core/raft.rs)
    raft,                   \* raft[n]: the RaftNode of node n
    messages,               \* the RaftMessages sent so far and still deliverable
    votes_received,         \* votes_received[n]: the peers whose granted vote n
                            \* has handled as Candidate of its current term
    elected,                \* the <<node, term>> pairs of every become_leader
    elections               \* the number of start_election calls so far

raftVars == <<raft, messages, votes_received, elected, elections>>

VARIABLES
    \* DistributedNode (core/distributed.rs), for the node Self
    running,                \* DistributedNode.running
    loop_pc,                \* where start / run_event_loop stands
    inbox,                  \* NetworkLayer.inbox
    incoming,               \* the rest of the batch run_event_loop is handling
    sent,                   \* the messages the last step handed to NetworkLayer::send
    propose_result,         \* what the last DistributedNode::propose returned, Blocked while it waits
    halted                  \* a propose call has got a divergence error from execute

nodeVars == <<running, loop_pc, inbox, incoming, sent, propose_result, halted>>

VARIABLES
    \* the DistributedNodes of the cluster (core/distributed.rs)
    replicas                \* replicas[n]: the VerifiedStateMachine and the running
                            \* flag of node n, the transitions its
                            \* VerifiedStateMachine has been handed, in order,
                            \* and what its last propose returned

clusterVars == <<replicas>>

VARIABLES
    \* one call of the RaftNode API (core/raft.rs)
    rcall                   \* the last call made on the RaftNode of node Probe:
                            \* the method, the node before it, the argument,
                            \* the messages returned and whether it returned Ok

callVars == <<rcall>>

VARIABLES
    \* a WAL directory and the WAL object open on it (core/storage.rs)
    wal                     \* the segment files as the file system holds them,
                            \* the fields of the WAL object and its BufWriter,
                            \* what the last read_all returned, and the
                            \* history of the directory: the records appended,
                            \* the crashes, the partial record a crash left

walVars == <<wal>>

VARIABLES
    \* a snapshot directory and crash recovery (core/storage.rs, core/recovery.rs)
    snaps,                  \* the files of the SnapshotManager's directory, its
                            \* configuration, what the last load_latest
                            \* returned, and the history: the saves and crashes
    recovery                \* what the calls of RecoveryManager::recover
                            \* returned, in order

storeVars == <<snaps, recovery>>

VARIABLES
    \* the tasks that share one VerifiedStateMachine or one node's RaftNode
    tasks,                  \* tasks[k]: where task k is in the call it makes,
                            \* the argument of the call, what it has computed
                            \* so far and what the call returned
    raft_lock               \* the task that holds the write guard of the
                            \* node's raft lock, NoTask when it is free

taskVars == <<tasks, raft_lock>>

\* the variables beside the VerifiedStateMachine, the RaftNodes and the node Self
extVars == <<clusterVars, callVars, walVars, storeVars, taskVars>>

vars == <<vsmVars, raftVars, nodeVars, extVars>>

(***************************************************************************)
(* State and Transition (core/lib.rs).                                     *)
(*                                                                         *)
(* State.data is a HashMap<String, Vec<u8>>.  It is modelled as the        *)
(* sequence of its (key, value) entries in the order the map enumerates    *)
(* them: the map's logical value is the set of the entries, its            *)
(* serialization is the sequence.  Every HashMap::new() draws its own      *)
(* RandomState, so the place a new key takes in the enumeration is an      *)
(* input of the insertion (slot), chosen per map.                          *)
(***************************************************************************)

\* State::new
NewState == [clock |-> 0, data |-> <<>>, members |-> <<>>, term |-> 0, leader |-> NoNode]

\* enum Transition
Transitions ==
    [type : {"Write"}, key : Keys, value : Values]
        \cup [type : {"Delete"}, key : Keys]
        \cup [type : {"AddMember"}, node_id : Nodes]
        \cup [type : {"RemoveMember"}, node_id : Nodes]
        \cup [type : {"ElectLeader"}, node_id : Nodes, term : Terms]

\* the elements of a sequence
Range(s) == {s[i] : i \in 1..Len(s)}

\* the logical value of a map: its set of entries
DataMap(d) == Range(d)

\* the keys of a map
DataKeys(d) == {d[i].key : i \in 1..Len(d)}

\* HashMap::insert: an existing key keeps its bucket and gets the new value,
\* a new key takes the bucket its hash selects (slot)
MapInsert(d, k, v, slot) ==
    IF k \in DataKeys(d)
    THEN [i \in 1..Len(d) |-> IF d[i].key = k THEN [key |-> k, value |-> v] ELSE d[i]]
    ELSE LET p == IF slot > Len(d) + 1 THEN Len(d) + 1 ELSE slot
         IN SubSeq(d, 1, p - 1) \o <<[key |-> k, value |-> v]>> \o SubSeq(d, p, Len(d))

\* HashMap::remove
MapRemove(d, k) == SelectSeq(d, LAMBDA e : e.key # k)

\* a sequence holds no element twice
NoDuplicates(s) == \A i, j \in 1..Len(s) : s[i] = s[j] => i = j

\* Vec::contains
Contains(s, x) == \E i \in 1..Len(s) : s[i] = x

\* the match of Transition::apply with AddMember pushing without the
\* contains test
ApplyEffect_PushAlways(t, s, slot) ==
    CASE t.type = "Write" ->
           [s EXCEPT !.data = MapInsert(s.data, t.key, t.value, slot)]
      [] t.type = "Delete" ->
           [s EXCEPT !.data = MapRemove(s.data, t.key)]
      [] t.type = "AddMember" ->
           [s EXCEPT !.members = Append(s.members, t.node_id)]
      [] t.type = "RemoveMember" ->
           [s EXCEPT !.members = SelectSeq(s.members, LAMBDA id : id # t.node_id)]
      [] t.type = "ElectLeader" ->
           IF t.term > s.term
           THEN [s EXCEPT !.term = t.term, !.leader = t.node_id]
           ELSE s

\* the match of Transition::apply over the five variants
ApplyEffect(t, s, slot) ==
    CASE t.type = "Write" ->
           [s EXCEPT !.data = MapInsert(s.data, t.key, t.value, slot)]
      [] t.type = "Delete" ->
           [s EXCEPT !.data = MapRemove(s.data, t.key)]
      [] t.type = "AddMember" ->
           IF ~Contains(s.members, t.node_id)
           THEN [s EXCEPT !.members = Append(s.members, t.node_id)]
           ELSE s
      [] t.type = "RemoveMember" ->
           [s EXCEPT !.members = SelectSeq(s.members, LAMBDA id : id # t.node_id)]
      [] t.type = "ElectLeader" ->
           IF t.term > s.term
           THEN [s EXCEPT !.term = t.term, !.leader = t.node_id]
           ELSE s

\* Transition::apply with the clock incremented inside the taken branch of
\* ElectLeader only
Apply_ClockInBranch(t, state, slot) ==
    IF t.type = "ElectLeader" /\ ~(t.term > state.term)
    THEN state
    ELSE ApplyEffect(t, [state EXCEPT !.clock = state.clock + 1], slot)

\* Transition::apply: increment the clock, then match on the variant
Apply(t, state, slot) ==
    ApplyEffect(t, [state EXCEPT !.clock = state.clock + 1], slot)

\* State::hash: blake3 over bincode::serialize(self); the digest is modelled
\* by the serialized bytes themselves (blake3 taken as injective): the fields
\* in declaration order, the map as its entries in enumeration order
Hash(state) == <<state.clock, state.data, state.members, state.term, state.leader>>

\* derive(PartialEq) for State: HashMap equality ignores enumeration order
StateEq(s1, s2) ==
    /\ s1.clock = s2.clock
    /\ DataMap(s1.data) = DataMap(s2.data)
    /\ s1.members = s2.members
    /\ s1.term = s2.term
    /\ s1.leader = s2.leader

\* the buckets the key of a transition may take in a map: a new key may land
\* before or after any entry, anything else leaves the enumeration alone
Slots(t, d) ==
    IF t.type = "Write" /\ t.key \notin DataKeys(d) THEN 1..(Len(d) + 1) ELSE {1}

(***************************************************************************)
(* VerifiedStateMachine (core/lib.rs).                                     *)
(***************************************************************************)

\* the result of VerifiedStateMachine::execute on the given machine state:
\* the new live state, the new shadow state and the returned value
ExecuteOutcome(t, live, shadow, enabled, slotLive, slotShadow) ==
    IF ~enabled
    THEN [live |-> Apply(t, live, slotLive), shadow |-> shadow, result |-> "Ok"]
    ELSE LET shadow2 == Apply(t, shadow, slotShadow)
             expected_hash == Hash(shadow2)
             live2 == Apply(t, live, slotLive)
             actual_hash == Hash(live2)
         IN [live |-> live2, shadow |-> shadow2,
             result |-> IF expected_hash # actual_hash THEN "StateDivergence" ELSE "Ok"]

\* VerifiedStateMachine::new
InitVSM ==
    /\ verification_enabled \in BOOLEAN
    /\ runtime_state = NewState
    /\ shadow_model = NewState
    /\ last_transition = [type |-> "none"]
    /\ state_before = NewState
    /\ last_result = "none"
    /\ calls = 0

\* VerifiedStateMachine::execute, called directly
Execute(t, slotLive, slotShadow) ==
    /\ calls < MaxExec
    /\ LET out == ExecuteOutcome(t, runtime_state, shadow_model, verification_enabled,
                                 slotLive, slotShadow)
       IN /\ runtime_state' = out.live
          /\ shadow_model' = out.shadow
          /\ last_result' = out.result
    /\ last_transition' = t
    /\ state_before' = runtime_state
    /\ calls' = calls + 1
    /\ UNCHANGED verification_enabled
    /\ UNCHANGED raftVars
    /\ UNCHANGED nodeVars
    /\ UNCHANGED extVars

(***************************************************************************)
(* RaftNode (core/raft.rs).                                                *)
(*                                                                         *)
(* A RaftNode is a record of its fields.  last_heartbeat and               *)
(* election_timeout are abstracted by expired, which says whether          *)
(* last_heartbeat.elapsed() > election_timeout holds now: assigning        *)
(* Instant::now() to last_heartbeat clears it, the passing of time sets    *)
(* it.  A handler is an operator from the node (and its arguments) to the  *)
(* node after the call and the messages the call returns.                  *)
(***************************************************************************)

\* the node whose RaftNode takes the single calls
Probe == 2

\* RaftNode::new, for node id of a cluster configured with the given peers
NewRaftNode(id, peers) ==
    [id |-> id, role |-> "Follower",
     current_term |-> 0, voted_for |-> NoNode, log |-> <<>>,
     commit_index |-> 0, last_applied |-> 0,
     peers |-> peers, expired |-> FALSE]

\* self.persistent.log.last().map(|e| e.term).unwrap_or(0)
LastLogTerm(log) == IF Len(log) = 0 THEN 0 ELSE log[Len(log)].term

\* RaftNode::start_election
StartElection(node) ==
    LET n2 == [node EXCEPT !.current_term = node.current_term + 1,
                           !.role = "Candidate",
                           !.voted_for = node.id,
                           !.expired = FALSE]
    IN [node |-> n2,
        out |-> {[type |-> "RequestVote", from |-> n2.id, to |-> peer,
                  term |-> n2.current_term, candidate_id |-> n2.id,
                  last_log_index |-> Len(n2.log),
                  last_log_term |-> LastLogTerm(n2.log)] :
                 peer \in n2.peers \ {n2.id}}]

\* RaftNode::send_heartbeats
SendHeartbeats(node) ==
    [node |-> node,
     out |-> {[type |-> "AppendEntries", from |-> node.id, to |-> peer,
               term |-> node.current_term, leader_id |-> node.id,
               prev_log_index |-> Len(node.log),
               prev_log_term |-> LastLogTerm(node.log),
               entries |-> <<>>,
               leader_commit |-> node.commit_index] :
              peer \in node.peers \ {node.id}}]

\* RaftNode::tick
Tick(node) ==
    IF node.role \in {"Follower", "Candidate"}
    THEN IF node.expired THEN StartElection(node) ELSE [node |-> node, out |-> {}]
    ELSE SendHeartbeats(node)

\* RaftNode::handle_request_vote without the test of voted_for: the vote
\* goes to any candidate of the term whose log is up to date
HandleRequestVote_AnyVote(node, from, term, candidate_id, last_log_index, last_log_term) ==
    LET vote_granted ==
            IF term < node.current_term THEN FALSE
            ELSE LET our_last_index == Len(node.log)
                     our_last_term == LastLogTerm(node.log)
                 IN \/ last_log_term > our_last_term
                    \/ (last_log_term = our_last_term /\ last_log_index >= our_last_index)
        n2 == IF vote_granted
              THEN [node EXCEPT !.voted_for = candidate_id, !.expired = FALSE]
              ELSE node
    IN [node |-> n2,
        out |-> {[type |-> "RequestVoteResponse", from |-> node.id, to |-> from,
                  term |-> n2.current_term, vote_granted |-> vote_granted]}]

\* RaftNode::handle_request_vote
HandleRequestVote(node, from, term, candidate_id, last_log_index, last_log_term) ==
    LET vote_granted ==
            IF term < node.current_term THEN FALSE
            ELSE IF node.voted_for # NoNode THEN node.voted_for = candidate_id
            ELSE LET our_last_index == Len(node.log)
                     our_last_term == LastLogTerm(node.log)
                 IN \/ last_log_term > our_last_term
                    \/ (last_log_term = our_last_term /\ last_log_index >= our_last_index)
        n2 == IF vote_granted
              THEN [node EXCEPT !.voted_for = candidate_id, !.expired = FALSE]
              ELSE node
    IN [node |-> n2,
        out |-> {[type |-> "RequestVoteResponse", from |-> node.id, to |-> from,
                  term |-> n2.current_term, vote_granted |-> vote_granted]}]

\* RaftNode::become_leader
BecomeLeader(node) == [node EXCEPT !.role = "Leader"]

\* the number of voters a candidate needs: (self.config.peers.len() / 2) + 1
Majority(peers) == (Cardinality(peers) \div 2) + 1

\* RaftNode::handle_vote_response without the vote_granted test and without
\* the count: any response of the current term wins the election
HandleVoteResponse_AnyReply(node, from, term, vote_granted) ==
    IF node.role # "Candidate" \/ term # node.current_term
    THEN [node |-> node, out |-> {}]
    ELSE SendHeartbeats(BecomeLeader(node))

\* RaftNode::handle_vote_response
HandleVoteResponse(node, from, term, vote_granted) ==
    IF node.role # "Candidate" \/ term # node.current_term
    THEN [node |-> node, out |-> {}]
    ELSE IF ~vote_granted
    THEN [node |-> node, out |-> {}]
    ELSE LET votes == 1
             majority == Majority(node.peers)
         IN IF votes >= majority
            THEN SendHeartbeats(BecomeLeader(node))
            ELSE [node |-> node, out |-> {}]

\* RaftNode::handle_append_entries that takes the leader's commit index as it
\* comes, without the min with the length of the log
HandleAppendEntries_NoMin(node, from, term, leader_id, prev_log_index, prev_log_term, entries, leader_commit) ==
    LET n1 == [node EXCEPT !.expired = FALSE]
    IN IF term < n1.current_term
       THEN [node |-> n1,
             out |-> {[type |-> "AppendEntriesResponse", from |-> n1.id, to |-> from,
                       term |-> n1.current_term, success |-> FALSE, match_index |-> 0]}]
       ELSE LET n2 == [n1 EXCEPT !.role = "Follower"]
                n3 == [n2 EXCEPT !.log = n2.log \o entries]
                n4 == IF leader_commit > n3.commit_index
                      THEN [n3 EXCEPT !.commit_index = leader_commit]
                      ELSE n3
            IN [node |-> n4,
                out |-> {[type |-> "AppendEntriesResponse", from |-> n4.id, to |-> from,
                          term |-> n4.current_term, success |-> TRUE,
                          match_index |-> Len(n4.log)]}]

\* RaftNode::handle_append_entries
HandleAppendEntries(node, from, term, leader_id, prev_log_index, prev_log_term, entries, leader_commit) ==
    LET n1 == [node EXCEPT !.expired = FALSE]
    IN IF term < n1.current_term
       THEN [node |-> n1,
             out |-> {[type |-> "AppendEntriesResponse", from |-> n1.id, to |-> from,
                       term |-> n1.current_term, success |-> FALSE, match_index |-> 0]}]
       ELSE LET n2 == [n1 EXCEPT !.role = "Follower"]
                n3 == [n2 EXCEPT !.log = n2.log \o entries]
                n4 == IF leader_commit > n3.commit_index
                      THEN [n3 EXCEPT !.commit_index =
                                IF leader_commit < Len(n3.log) THEN leader_commit
                                                               ELSE Len(n3.log)]
                      ELSE n3
            IN [node |-> n4,
                out |-> {[type |-> "AppendEntriesResponse", from |-> n4.id, to |-> from,
                          term |-> n4.current_term, success |-> TRUE,
                          match_index |-> Len(n4.log)]}]

\* RaftNode::handle_append_entries_response
HandleAppendEntriesResponse(node, from, term, success, match_index) ==
    [node |-> node, out |-> {}]

\* the term check at the head of RaftNode::handle_message that keeps the vote
\* of the older term
StepDown_KeepVote(node, msg_term) ==
    IF msg_term > node.current_term
    THEN [node EXCEPT !.current_term = msg_term, !.role = "Follower"]
    ELSE node

\* the term check at the head of RaftNode::handle_message: a newer term makes
\* the node a Follower of that term with no vote
StepDown(node, msg_term) ==
    IF msg_term > node.current_term
    THEN [node EXCEPT !.current_term = msg_term, !.role = "Follower", !.voted_for = NoNode]
    ELSE node

\* RaftNode::handle_message
HandleMessage(node, msg) ==
    LET n1 == StepDown(node, msg.term)
    IN CASE msg.type = "RequestVote" ->
              HandleRequestVote(n1, msg.from, msg.term, msg.candidate_id,
                                msg.last_log_index, msg.last_log_term)
         [] msg.type = "RequestVoteResponse" ->
              HandleVoteResponse(n1, msg.from, msg.term, msg.vote_granted)
         [] msg.type = "AppendEntries" ->
              HandleAppendEntries(n1, msg.from, msg.term, msg.leader_id,
                                  msg.prev_log_index, msg.prev_log_term,
                                  msg.entries, msg.leader_commit)
         [] msg.type = "AppendEntriesResponse" ->
              HandleAppendEntriesResponse(n1, msg.from, msg.term, msg.success,
                                          msg.match_index)

\* RaftNode::propose without the role test: any node appends
RaftPropose_AnyRole(node, transition) ==
    LET entry == [term |-> node.current_term,
                  index |-> Len(node.log) + 1,
                  transition |-> transition]
    IN [node |-> [node EXCEPT !.log = Append(node.log, entry)], ok |-> TRUE]

\* RaftNode::propose: the node after the call and whether it returned Ok
RaftPropose(node, transition) ==
    IF node.role # "Leader"
    THEN [node |-> node, ok |-> FALSE]
    ELSE LET entry == [term |-> node.current_term,
                       index |-> Len(node.log) + 1,
                       transition |-> transition]
         IN [node |-> [node EXCEPT !.log = Append(node.log, entry)], ok |-> TRUE]

(***************************************************************************)
(* A cluster of RaftNodes, each configured with all the nodes as peers     *)
(* (ClusterConfig::raft_config), driven by tick and handle_message.  A     *)
(* sent message stays deliverable for ever: it may be handled late, more   *)
(* than once, out of order or never.                                       *)
(***************************************************************************)

\* the granted votes a node holds after a call: none after a change of term,
\* one more after a granted response handled as Candidate of the term
VotesAfter(n, before, after, msg) ==
    IF after.current_term # before.current_term THEN {}
    ELSE IF /\ msg.type = "RequestVoteResponse"
            /\ before.role = "Candidate"
            /\ msg.term = before.current_term
            /\ msg.vote_granted
         THEN votes_received[n] \cup {msg.from}
         ELSE votes_received[n]

\* the elections won so far, after a call on a node
ElectedAfter(before, after) ==
    IF after.role = "Leader" /\ before.role # "Leader"
    THEN elected \cup {<<after.id, after.current_term>>}
    ELSE elected

\* node n runs RaftNode::tick and the returned messages are sent; elapsed
\* says whether the election timeout has run out since last_heartbeat
RaftTick(n, elapsed) ==
    LET node == [raft[n] EXCEPT !.expired = @ \/ elapsed]
        r == Tick(node)
        started == IF r.node.current_term # raft[n].current_term THEN 1 ELSE 0
    IN /\ elections + started <= MaxElections
       /\ elections' = elections + started
       /\ raft' = [raft EXCEPT ![n] = r.node]
       /\ messages' = messages \cup r.out
       /\ votes_received' = [votes_received EXCEPT ![n] =
             IF r.node.current_term # raft[n].current_term THEN {} ELSE @]
       /\ elected' = ElectedAfter(raft[n], r.node)
       /\ UNCHANGED vsmVars
       /\ UNCHANGED nodeVars
    /\ UNCHANGED extVars

\* a sent message reaches its receiver, which runs RaftNode::handle_message
\* on it; the responses are sent.  keep says whether the network may deliver
\* the message again
RaftReceive(msg, keep) ==
    /\ msg \in messages
    /\ LET n == msg.to
           r == HandleMessage(raft[n], msg)
       IN /\ raft' = [raft EXCEPT ![n] = r.node]
          /\ messages' = (IF keep THEN messages ELSE messages \ {msg}) \cup r.out
          /\ votes_received' = [votes_received EXCEPT ![n] =
                                    VotesAfter(n, StepDown(raft[n], msg.term), r.node, msg)]
          /\ elected' = ElectedAfter(raft[n], r.node)
    /\ UNCHANGED elections
    /\ UNCHANGED vsmVars
    /\ UNCHANGED nodeVars
    /\ UNCHANGED extVars

\* DistributedNode::new
InitNode ==
    /\ running = FALSE
    /\ loop_pc = "new"
    /\ inbox = <<>>
    /\ incoming = <<>>
    /\ sent = {}
    /\ propose_result = "none"
    /\ halted = FALSE

\* DistributedNode::new for every node of the cluster
InitReplicas ==
    replicas = [n \in Servers |->
                   [runtime_state |-> NewState, shadow_model |-> NewState,
                    running |-> FALSE, delivered |-> <<>>,
                    propose_result |-> "none"]]

\* no call made yet
InitCall ==
    rcall = [op |-> "none", before |-> NewRaftNode(Probe, Servers),
             arg |-> [type |-> "none"], out |-> {}, ok |-> TRUE]

\* no WAL directory yet: neither the RaftNode nor the DistributedNode
\* constructor creates or opens a WAL
InitWal ==
    wal = [files |-> <<>>, handle |-> FALSE,
           config |-> [sync_on_write |-> TRUE, max_file_size |-> 0],
           buf |-> <<>>, current_index |-> 0, bytes_written |-> 0,
           result |-> [op |-> "none", ok |-> TRUE, entries |-> <<>>],
           appended |-> <<>>, crashes |-> 0, torn |-> "none", resumed |-> 0]

\* no snapshot directory yet and no recovery run
InitStore ==
    /\ snaps = [handle |-> FALSE, keep_snapshots |-> 0, files |-> {},
                result |-> [op |-> "none", ok |-> TRUE, found |-> FALSE,
                            snapshot |-> [last_index |-> 0, last_term |-> 0,
                                          state |-> NewState, timestamp |-> 0]],
                saves |-> 0, crashes |-> 0, since |-> 0,
                previous |-> [ok |-> TRUE, found |-> FALSE,
                              snapshot |-> [last_index |-> 0, last_term |-> 0,
                                            state |-> NewState, timestamp |-> 0]],
                attempt |-> [last_index |-> 0, last_term |-> 0,
                             state |-> NewState, timestamp |-> 0]]
    /\ recovery = <<>>

\* the tasks that call into the shared object
Tasks == {1, 2}

\* no task
NoTask == 0

\* a task that is in no call
IdleTask == [pc |-> "idle", arg |-> [type |-> "none"], elapsed |-> FALSE,
             before |-> NewRaftNode(Self, Servers), expected |-> <<>>,
             result |-> "none", done |-> 0]

\* no task has called yet and the raft lock is free
InitTasks ==
    /\ tasks = [k \in Tasks |-> IdleTask]
    /\ raft_lock = NoTask

InitExt == InitReplicas /\ InitCall /\ InitWal /\ InitStore /\ InitTasks

\* a cluster of freshly constructed nodes
InitRaft ==
    /\ raft = [n \in Servers |-> NewRaftNode(n, Servers)]
    /\ messages = {}
    /\ votes_received = [n \in Servers |-> {}]
    /\ elected = {}
    /\ elections = 0

\* the cluster over a network that loses, duplicates, delays and reorders
NextRaft ==
    \/ \E n \in Servers, elapsed \in BOOLEAN : RaftTick(n, elapsed)
    \/ \E msg \in messages : RaftReceive(msg, TRUE)

\* the process of node n dies and is started again: nothing of the RaftNode
\* is written to disk, recover returns a State only, and the node of the
\* new process comes from RaftNode::new
RaftRestart(n) ==
    /\ raft' = [raft EXCEPT ![n] = NewRaftNode(n, Servers)]
    /\ votes_received' = [votes_received EXCEPT ![n] = {}]
    /\ UNCHANGED <<messages, elected, elections>>
    /\ UNCHANGED vsmVars
    /\ UNCHANGED nodeVars
    /\ UNCHANGED extVars

\* the cluster with nodes that crash and restart
NextRestart ==
    \/ NextRaft
    \/ \E n \in Servers : RaftRestart(n)

\* the nodes of a cluster are built with verification enabled
InitCluster == InitVSM /\ verification_enabled = TRUE /\ InitRaft /\ InitNode /\ InitExt

SpecRaft == InitCluster /\ [][NextRaft]_vars

SpecRestart == InitCluster /\ [][NextRestart]_vars

\* the messages a node of the cluster can send within the bounds
MessageUniverse ==
    [type : {"RequestVote"}, from : Servers, to : Servers, term : 1..MaxElections,
     candidate_id : Servers, last_log_index : {0}, last_log_term : {0}]
        \cup [type : {"RequestVoteResponse"}, from : Servers, to : Servers,
              term : 1..MaxElections, vote_granted : BOOLEAN]
        \cup [type : {"AppendEntries"}, from : Servers, to : Servers,
              term : 1..MaxElections, leader_id : Servers, prev_log_index : {0},
              prev_log_term : {0}, entries : {<<>>}, leader_commit : {0}]
        \cup [type : {"AppendEntriesResponse"}, from : Servers, to : Servers,
              term : 1..MaxElections, success : BOOLEAN, match_index : {0}]

\* the cluster with every node's timer firing again and again and every sent
\* message handled
FairSpecRaft ==
    /\ SpecRaft
    /\ \A n \in Servers : WF_vars(RaftTick(n, TRUE))
    /\ \A msg \in MessageUniverse : WF_vars(RaftReceive(msg, TRUE))

(***************************************************************************)
(* Replication to the followers.  No code of the repository sends an       *)
(* AppendEntries with entries (send_heartbeats sends entries: vec![]), so  *)
(* the sender is the environment: the node at the address of peer 1 runs   *)
(* the leader of the protocol and the RaftNodes of nodes 2 and 3 handle    *)
(* what it sends, as handle_connection hands it to them.  The sender keeps *)
(* the rules of a Raft leader: one leader a term, a log it only appends    *)
(* to, entries sent with the index and term of the entry before them.  The *)
(* leader of term 1 holds LeaderLog(1); the leader of term 2 holds         *)
(* LeaderLog(2), which keeps the committed first entry and replaces the    *)
(* uncommitted second one.                                                 *)
(***************************************************************************)

\* the node that runs the sending leader, and the RaftNodes that receive
Sender == 1
Followers == Servers \ {Sender}

\* a LogEntry
Entry(term, index, key, value) ==
    [term |-> term, index |-> index,
     transition |-> [type |-> "Write", key |-> key, value |-> value]]

\* the log of the leader of a term, at its longest
LeaderLog(term) ==
    IF term = 1 THEN <<Entry(1, 1, 1, 1), Entry(1, 2, 2, 1)>>
                ELSE <<Entry(1, 1, 1, 1), Entry(2, 2, 2, 2)>>

\* the highest index the leader of a term can know to be committed
LeaderCommitted(term) == IF term = 1 THEN 1 ELSE 2

\* what the leader of a term can send: the entries prev+1..last of its log
\* (last = prev for a heartbeat) with the commit index it knows
AppendShapes ==
    {sh \in [term : 1..MaxLeaderTerm, prev : 0..MaxLog, last : 0..MaxLog,
              commit : 0..MaxLog] :
        /\ sh.prev <= sh.last
        /\ sh.last <= Len(LeaderLog(sh.term))
        /\ sh.commit <= LeaderCommitted(sh.term)}

\* the AppendEntries the leaders send to follower n
LeaderAppends(n) ==
    {[type |-> "AppendEntries", from |-> Sender, to |-> n,
      term |-> sh.term, leader_id |-> Sender,
      prev_log_index |-> sh.prev,
      prev_log_term |-> IF sh.prev = 0 THEN 0 ELSE LeaderLog(sh.term)[sh.prev].term,
      entries |-> SubSeq(LeaderLog(sh.term), sh.prev + 1, sh.last),
      leader_commit |-> sh.commit] : sh \in AppendShapes}

\* a message of the sending leader reaches follower msg.to, which runs
\* RaftNode::handle_message on it; the response goes back to the sender,
\* which has taken the responses before it
ReplDeliver(msg) ==
    /\ Len(raft[msg.to].log) + Len(msg.entries) <= MaxLog
    /\ LET n == msg.to
           r == HandleMessage(raft[n], msg)
       IN /\ raft' = [raft EXCEPT ![n] = r.node]
          /\ messages' = r.out
          /\ votes_received' = [votes_received EXCEPT ![n] =
                                    VotesAfter(n, StepDown(raft[n], msg.term), r.node, msg)]
          /\ elected' = ElectedAfter(raft[n], r.node)
    /\ UNCHANGED elections
    /\ UNCHANGED vsmVars
    /\ UNCHANGED nodeVars
    /\ UNCHANGED extVars

\* the followers under the sending leaders: what the leaders send arrives in
\* any order, any number of times or never.  The heartbeats keep the
\* followers' election timers from running out.
NextRepl == \E n \in Followers : \E msg \in LeaderAppends(n) : ReplDeliver(msg)

SpecRepl == InitCluster /\ [][NextRepl]_vars

(***************************************************************************)
(* The methods of RaftNode taken one call at a time: the RaftNode of node  *)
(* Probe is in any state of its fields within the bounds, and one of       *)
(* propose, handle_message and tick is called on it once.  The node has no *)
(* WAL: RaftNode holds none and none of its methods takes one.             *)
(***************************************************************************)

Roles == {"Follower", "Candidate", "Leader"}

\* the logs of the node: what a leader of one of the terms holds, whole or
\* in part
InputLogs ==
    {SubSeq(LeaderLog(term), 1, last) :
        term \in 1..MaxLeaderTerm, last \in 0..Len(LeaderLog(1))}

\* the states of the node: a term at least that of every entry, a commit
\* index within the log, its own vote if it stands or leads
NodeInputs ==
    {node \in [id : {Probe}, role : Roles, current_term : 0..MaxLeaderTerm,
               voted_for : {NoNode} \cup Servers, log : InputLogs,
               commit_index : 0..MaxLog, last_applied : {0},
               peers : {Servers}, expired : BOOLEAN] :
        /\ \A i \in 1..Len(node.log) : node.log[i].term <= node.current_term
        /\ node.commit_index <= Len(node.log)
        /\ node.role # "Follower" => node.voted_for = Probe
        /\ node.current_term = 0 => (node.voted_for = NoNode /\ node.role = "Follower")}

\* the messages the peers of the node can send it
ProbeMessages ==
    LeaderAppends(Probe) \cup
    {m \in MessageUniverse :
        /\ m.to = Probe
        /\ m.from # Probe
        /\ m.type = "RequestVote" => m.candidate_id = m.from
        /\ m.type = "AppendEntries" => m.leader_id = m.from}

InitProbe ==
    /\ InitVSM /\ verification_enabled = TRUE
    /\ \E node \in NodeInputs :
          raft = [n \in Servers |-> IF n = Probe THEN node ELSE NewRaftNode(n, Servers)]
    /\ messages = {}
    /\ votes_received = [n \in Servers |-> {}]
    /\ elected = {}
    /\ elections = 0
    /\ InitNode
    /\ InitExt

\* RaftNode::propose is called on the node
CallPropose(t) ==
    /\ rcall.op = "none"
    /\ LET rp == RaftPropose(raft[Probe], t)
       IN /\ raft' = [raft EXCEPT ![Probe] = rp.node]
          /\ rcall' = [op |-> "propose", before |-> raft[Probe], arg |-> t,
                       out |-> {}, ok |-> rp.ok]
    /\ UNCHANGED <<messages, votes_received, elected, elections>>
    /\ UNCHANGED <<vsmVars, nodeVars, clusterVars, walVars, storeVars, taskVars>>

\* RaftNode::handle_message is called on the node
CallHandleMessage(msg) ==
    /\ rcall.op = "none"
    /\ LET r == HandleMessage(raft[Probe], msg)
       IN /\ raft' = [raft EXCEPT ![Probe] = r.node]
          /\ rcall' = [op |-> "handle_message", before |-> raft[Probe], arg |-> msg,
                       out |-> r.out, ok |-> TRUE]
    /\ UNCHANGED <<messages, votes_received, elected, elections>>
    /\ UNCHANGED <<vsmVars, nodeVars, clusterVars, walVars, storeVars, taskVars>>

\* RaftNode::tick is called on the node; elapsed says whether the election
\* timeout has run out since last_heartbeat
CallTick(elapsed) ==
    /\ rcall.op = "none"
    /\ LET r == Tick([raft[Probe] EXCEPT !.expired = @ \/ elapsed])
       IN /\ raft' = [raft EXCEPT ![Probe] = r.node]
          /\ rcall' = [op |-> "tick", before |-> raft[Probe], arg |-> [type |-> "none"],
                       out |-> r.out, ok |-> TRUE]
    /\ UNCHANGED <<messages, votes_received, elected, elections>>
    /\ UNCHANGED <<vsmVars, nodeVars, clusterVars, walVars, storeVars, taskVars>>

NextProbe ==
    \/ \E t \in Transitions : CallPropose(t)
    \/ \E msg \in ProbeMessages : CallHandleMessage(msg)
    \/ \E elapsed \in BOOLEAN : CallTick(elapsed)

SpecProbe == InitProbe /\ [][NextProbe]_vars

(***************************************************************************)
(* DistributedNode (core/distributed.rs): the node Self of the three-node  *)
(* cluster, with its VerifiedStateMachine, its RaftNode raft[Self] and its *)
(* NetworkLayer.  The peers are the environment: what they send arrives in *)
(* the inbox.  propose and the task running run_event_loop interleave at   *)
(* the await points of the loop.                                           *)
(***************************************************************************)

\* InvariantChecker::check_all with the invariants DistributedNode::new adds:
\* UniqueMembers, and MonotonicClock whose last_clock stays 0
CheckAll(state) == NoDuplicates(state.members) /\ ~(state.clock < 0)

\* the requests the peers of node n can send it within the bounds: the
\* RequestVote of a peer that stands for election, the heartbeat of a peer
\* that leads
Inbound(n) ==
    {m \in MessageUniverse :
        /\ m.to = n
        /\ m.from # n
        /\ m.term <= MaxInboundTerm
        /\ \/ m.type = "RequestVote" /\ m.candidate_id = m.from
           \/ m.type = "AppendEntries" /\ m.leader_id = m.from}

\* DistributedNode::start up to the entry of run_event_loop
NodeStart ==
    /\ loop_pc = "new"
    /\ running' = TRUE
    /\ loop_pc' = "check"
    /\ sent' = {}
    /\ UNCHANGED <<inbox, incoming, propose_result, halted>>
    /\ UNCHANGED vsmVars
    /\ UNCHANGED raftVars
    /\ UNCHANGED extVars

\* handle_connection: a message of a peer is pushed to the inbox
NodeNetReceive(msg) ==
    /\ loop_pc # "new"
    /\ Len(inbox) + Len(incoming) < MaxInbox
    /\ inbox' = Append(inbox, msg)
    /\ sent' = {}
    /\ UNCHANGED <<running, loop_pc, incoming, propose_result, halted>>
    /\ UNCHANGED vsmVars
    /\ UNCHANGED raftVars
    /\ UNCHANGED extVars

\* run_event_loop: the test of the while loop, up to tick_interval.tick().await
NodeLoopCheck ==
    /\ loop_pc = "check"
    /\ loop_pc' = IF running THEN "tick" ELSE "exited"
    /\ sent' = {}
    /\ UNCHANGED <<running, inbox, incoming, propose_result, halted>>
    /\ UNCHANGED vsmVars
    /\ UNCHANGED raftVars
    /\ UNCHANGED extVars

\* run_event_loop: the Raft tick, the sending of its messages and
\* network.receive(), which takes the whole inbox
NodeLoopTick(elapsed) ==
    /\ loop_pc = "tick"
    /\ LET node == [raft[Self] EXCEPT !.expired = @ \/ elapsed]
           r == Tick(node)
           started == IF r.node.current_term # raft[Self].current_term THEN 1 ELSE 0
       IN /\ elections + started <= MaxElections
          /\ elections' = elections + started
          /\ raft' = [raft EXCEPT ![Self] = r.node]
          /\ sent' = r.out
          /\ votes_received' = [votes_received EXCEPT ![Self] =
                IF r.node.current_term # raft[Self].current_term THEN {} ELSE @]
          /\ elected' = ElectedAfter(raft[Self], r.node)
    /\ incoming' = inbox
    /\ inbox' = <<>>
    /\ loop_pc' = "drain"
    /\ UNCHANGED <<running, propose_result, halted, messages>>
    /\ UNCHANGED vsmVars
    /\ UNCHANGED extVars

\* run_event_loop: the body of `for msg in incoming` for the next message, or
\* the end of the for loop
NodeLoopHandle ==
    /\ loop_pc = "drain"
    /\ IF incoming = <<>>
       THEN /\ loop_pc' = "check"
            /\ sent' = {}
            /\ UNCHANGED <<incoming, raftVars>>
       ELSE LET msg == Head(incoming)
                r == HandleMessage(raft[Self], msg)
            IN /\ raft' = [raft EXCEPT ![Self] = r.node]
               /\ sent' = r.out
               /\ votes_received' = [votes_received EXCEPT ![Self] =
                     VotesAfter(Self, StepDown(raft[Self], msg.term), r.node, msg)]
               /\ elected' = ElectedAfter(raft[Self], r.node)
               /\ incoming' = Tail(incoming)
               /\ UNCHANGED <<loop_pc, messages, elections>>
    /\ UNCHANGED <<running, inbox, propose_result, halted>>
    /\ UNCHANGED vsmVars
    /\ UNCHANGED extVars

\* DistributedNode::propose.  The write guard of state_machine is a temporary
\* of the scrutinee of the match on execute's result (distributed.rs:179), so
\* it is held until the match ends.  Either arm then asks the same lock for a
\* read guard, the Ok arm at once (distributed.rs:181), the divergence arm
\* inside handle_divergence (distributed.rs:236); parking_lot's RwLock is not
\* reentrant, so the call waits there for itself: it never returns, never gets
\* to check_all, to raft.propose or to the clearing of the running flag, and
\* it keeps the write guard.  Every later call waits at its first
\* state_machine.read() (distributed.rs:176) and does nothing.
NodePropose(t, slotLive, slotShadow) ==
    /\ calls < MaxExec
    /\ propose_result # "Blocked"
    /\ LET out == ExecuteOutcome(t, runtime_state, shadow_model, verification_enabled,
                                 slotLive, slotShadow)
       IN /\ runtime_state' = out.live
          /\ shadow_model' = out.shadow
          /\ last_result' = out.result
          /\ halted' = (halted \/ out.result # "Ok")
    /\ propose_result' = "Blocked"
    /\ last_transition' = t
    /\ state_before' = runtime_state
    /\ calls' = calls + 1
    /\ sent' = {}
    /\ UNCHANGED <<verification_enabled, running, loop_pc, inbox, incoming>>
    /\ UNCHANGED raftVars
    /\ UNCHANGED extVars

NextNode ==
    \/ NodeStart
    \/ \E msg \in Inbound(Self) : NodeNetReceive(msg)
    \/ NodeLoopCheck
    \/ \E elapsed \in BOOLEAN : NodeLoopTick(elapsed)
    \/ NodeLoopHandle
    \/ \E t \in Transitions :
         \E slotLive \in Slots(t, runtime_state.data),
            slotShadow \in Slots(t, shadow_model.data) :
             NodePropose(t, slotLive, slotShadow)

SpecNode == InitCluster /\ [][NextNode]_vars

\* what the leader at peer 2 sends node Self: the AppendEntries of the
\* leaders of the protocol, entries and commit index included
LeaderInbound ==
    {[msg EXCEPT !.from = 2, !.leader_id = 2] : msg \in LeaderAppends(Self)}

\* the number of entries in the messages of a queue
RECURSIVE QueuedEntries(_)
QueuedEntries(queue) ==
    IF queue = <<>> THEN 0
    ELSE Len(Head(queue).entries) + QueuedEntries(Tail(queue))

\* a message of the leader reaches the node
NodeLeaderReceive(msg) ==
    /\ Len(raft[Self].log) + QueuedEntries(inbox \o incoming) + Len(msg.entries) <= MaxLog
    /\ NodeNetReceive(msg)

\* the node as a follower of the leader at peer 2: the task running
\* run_event_loop is all that works on its RaftNode
NextFollow ==
    \/ NodeStart
    \/ \E msg \in LeaderInbound : NodeLeaderReceive(msg)
    \/ NodeLoopCheck
    \/ \E elapsed \in BOOLEAN : NodeLoopTick(elapsed)
    \/ NodeLoopHandle

SpecFollow == InitCluster /\ [][NextFollow]_vars

\* the task of run_event_loop is scheduled again and again
FairSpecFollow ==
    /\ SpecFollow
    /\ WF_vars(NodeStart)
    /\ WF_vars(NodeLoopCheck)
    /\ WF_vars(\E elapsed \in BOOLEAN : NodeLoopTick(elapsed))
    /\ WF_vars(NodeLoopHandle)

(***************************************************************************)
(* The DistributedNodes of the cluster, each with its own                  *)
(* VerifiedStateMachine and RaftNode, taking proposals from their clients. *)
(***************************************************************************)

\* DistributedNode::propose on node n: the transition is executed and the
\* call then waits for ever for the lock it holds
ClusterPropose(n, t, slotLive, slotShadow) ==
    /\ Len(replicas[n].delivered) < MaxDelivered
    /\ replicas[n].propose_result # "Blocked"
    /\ LET out == ExecuteOutcome(t, replicas[n].runtime_state, replicas[n].shadow_model,
                                 verification_enabled, slotLive, slotShadow)
       IN replicas' = [replicas EXCEPT
                 ![n].runtime_state = out.live,
                 ![n].shadow_model = out.shadow,
                 ![n].delivered = Append(@, t),
                 ![n].propose_result = "Blocked"]
    /\ UNCHANGED raftVars
    /\ UNCHANGED vsmVars
    /\ UNCHANGED nodeVars
    /\ UNCHANGED <<callVars, walVars, storeVars, taskVars>>

NextCluster ==
    \E n \in Servers, t \in Transitions :
        \E slotLive \in Slots(t, replicas[n].runtime_state.data),
           slotShadow \in Slots(t, replicas[n].shadow_model.data) :
            ClusterPropose(n, t, slotLive, slotShadow)

SpecCluster == InitCluster /\ [][NextCluster]_vars

(***************************************************************************)
(* A cluster of two nodes, each built with a RaftConfig whose peers lists  *)
(* the other node (RaftConfig.peers is a public field that RaftNode::new   *)
(* and DistributedNode::new take as given).  There                         *)
(* (self.config.peers.len() / 2) + 1 is 1 and the literal votes = 1 of     *)
(* handle_vote_response reaches it, so this is a cluster in which the code *)
(* elects a leader.  Node 3 is not part of it.                             *)
(***************************************************************************)

Pair == {1, 2}

\* RaftConfig.peers of node n
PairPeers(n) == IF n \in Pair THEN Pair \ {n} ELSE {}

\* what the clients of the pair propose
PairWrites == {[type |-> "Write", key |-> 1, value |-> 1]}

InitPair ==
    /\ InitVSM /\ verification_enabled = TRUE
    /\ raft = [n \in Servers |-> NewRaftNode(n, PairPeers(n))]
    /\ messages = {}
    /\ votes_received = [n \in Servers |-> {}]
    /\ elected = {}
    /\ elections = 0
    /\ InitNode
    /\ InitExt

\* RaftNode::propose is called on node n of the pair
PairPropose(n, t) ==
    /\ Len(raft[n].log) < MaxLog
    /\ LET rp == RaftPropose(raft[n], t)
       IN /\ raft' = [raft EXCEPT ![n] = rp.node]
          /\ rcall' = [op |-> "propose", before |-> raft[n], arg |-> t,
                       out |-> {}, ok |-> rp.ok]
    /\ UNCHANGED <<messages, votes_received, elected, elections>>
    /\ UNCHANGED <<vsmVars, nodeVars, clusterVars, walVars, storeVars, taskVars>>

NextPair ==
    \/ \E n \in Pair, elapsed \in BOOLEAN : RaftTick(n, elapsed)
    \/ \E msg \in messages : RaftReceive(msg, TRUE)
    \/ \E n \in Pair, t \in PairWrites : PairPropose(n, t)
    \/ \E n \in Pair, t \in PairWrites :
         \E slotLive \in Slots(t, replicas[n].runtime_state.data),
            slotShadow \in Slots(t, replicas[n].shadow_model.data) :
             ClusterPropose(n, t, slotLive, slotShadow)

SpecPair == InitPair /\ [][NextPair]_vars

\* the pair with every node's timer firing again and again, every leader
\* ticking and every sent message handled
FairSpecPair ==
    /\ SpecPair
    /\ \A n \in Pair : WF_vars(RaftTick(n, TRUE))
    /\ \A msg \in MessageUniverse : WF_vars(RaftReceive(msg, TRUE))

(***************************************************************************)
(* The write-ahead log (core/storage.rs).  A segment file is the sequence  *)
(* of its bytes.  A record is written as the 4 bytes of the length of its  *)
(* bincode serialization, little-endian, and then the serialization.       *)
(* bincode::serialize writes an enum as the u32 of the variant, a u64 and  *)
(* a usize as 8 bytes little-endian, an Option as a byte 0, or a byte 1    *)
(* and the value, a String and a Vec<u8> as the u64 of the length and the  *)
(* bytes; bincode::deserialize reads the same and ignores what follows a   *)
(* value.  The Transition of a LogEntry record and the State of a Snapshot *)
(* record are kept in their serialized form.  Key k stands for the string  *)
(* of the one digit k and value v for the vector of the one byte v.        *)
(***************************************************************************)

\* std's DEFAULT_BUF_SIZE, the capacity BufWriter::new gives the buffer
BufCapacity == 8192

\* WALConfig::default().max_file_size
DefaultMaxFileSize == 67108864

\* a max_file_size that a record or two fill
SmallMaxFileSize == 30

\* what a number read from the bytes is taken for when it is 2^31 - 1 or
\* more: more than any length and any field value of the model
OutOfRange == 2147483647

\* u32::to_le_bytes, and a u64 as bincode writes it
U32(n) == <<n % 256, (n \div 256) % 256, (n \div 65536) % 256, (n \div 16777216) % 256>>
U64(n) == U32(n) \o <<0, 0, 0, 0>>

\* bincode::serialize of a Transition
EncodeTransition(t) ==
    CASE t.type = "Write" -> U32(0) \o U64(1) \o <<48 + t.key>> \o U64(1) \o <<t.value>>
      [] t.type = "Delete" -> U32(1) \o U64(1) \o <<48 + t.key>>
      [] t.type = "AddMember" -> U32(2) \o U64(t.node_id)
      [] t.type = "RemoveMember" -> U32(3) \o U64(t.node_id)
      [] t.type = "ElectLeader" -> U32(4) \o U64(t.node_id) \o U64(t.term)

\* WALEntry::LogEntry of an entry of a Raft log
WalLogEntry(e) ==
    [type |-> "LogEntry", index |-> e.index, term |-> e.term,
     transition |-> EncodeTransition(e.transition)]

\* WALEntry::Metadata; voted_for is the empty sequence for None
WalMetadata(current_term, voted_for) ==
    [type |-> "Metadata", current_term |-> current_term,
     voted_for |-> IF voted_for = NoNode THEN <<>> ELSE <<voted_for>>]

\* WALEntry::Commit
WalCommit(index) == [type |-> "Commit", index |-> index]

\* bincode::serialize of a WALEntry
Encode(rec) ==
    CASE rec.type = "LogEntry" ->
            U32(0) \o U64(rec.index) \o U64(rec.term) \o rec.transition
      [] rec.type = "Snapshot" ->
            U32(1) \o U64(rec.index) \o U64(rec.term) \o rec.state
      [] rec.type = "Metadata" ->
            U32(2) \o U64(rec.current_term) \o
            (IF rec.voted_for = <<>> THEN <<0>> ELSE <<1>> \o U64(rec.voted_for[1]))
      [] rec.type = "Commit" -> U32(3) \o U64(rec.index)

\* the bytes WAL::append writes for a record: length prefix, then the entry
Frame(rec) == U32(Len(Encode(rec))) \o Encode(rec)

\* the bytes from position p on are at least n
Has(b, p, n) == n <= Len(b) - p + 1

\* u32::from_le_bytes of the 4 bytes at p, and the u64 of the 8 bytes at p
V32(b, p) == IF b[p + 3] < 128 THEN b[p] + 256 * b[p + 1] + 65536 * b[p + 2] + 16777216 * b[p + 3] ELSE OutOfRange
V64(b, p) == IF V32(b, p + 4) = 0 THEN V32(b, p) ELSE OutOfRange

\* where a deserializer stands after a value that starts at p, or Fail if the
\* bytes end before the value does or are not a value
Fail == 0

SkipU64(b, p) == IF p # Fail /\ Has(b, p, 8) THEN p + 8 ELSE Fail

\* a Vec<u8>
SkipBytes(b, p) ==
    IF p # Fail /\ Has(b, p, 8) /\ Has(b, p + 8, V64(b, p))
    THEN p + 8 + V64(b, p) ELSE Fail

\* a String: the bytes must be UTF-8, which bytes below 128 are
SkipString(b, p) ==
    IF SkipBytes(b, p) # Fail /\ \A i \in (p + 8)..(SkipBytes(b, p) - 1) : b[i] < 128
    THEN SkipBytes(b, p) ELSE Fail

\* an Option<u64>
SkipOption(b, p) ==
    IF p = Fail \/ ~Has(b, p, 1) THEN Fail
    ELSE IF b[p] = 0 THEN p + 1
    ELSE IF b[p] = 1 THEN SkipU64(b, p + 1)
    ELSE Fail

\* a Transition
SkipTransition(b, p) ==
    IF p = Fail \/ ~Has(b, p, 4) THEN Fail
    ELSE CASE V32(b, p) = 0 -> SkipBytes(b, SkipString(b, p + 4))
           [] V32(b, p) = 1 -> SkipString(b, p + 4)
           [] V32(b, p) \in {2, 3} -> SkipU64(b, p + 4)
           [] V32(b, p) = 4 -> SkipU64(b, SkipU64(b, p + 4))
           [] OTHER -> Fail

\* n entries of a HashMap<String, Vec<u8>>
RECURSIVE SkipPairs(_, _, _)
SkipPairs(b, p, n) ==
    IF p = Fail \/ n = 0 THEN p
    ELSE SkipPairs(b, SkipBytes(b, SkipString(b, p)), n - 1)

\* a Vec<NodeId>
SkipMembers(b, p) ==
    IF p # Fail /\ Has(b, p, 8) /\ V64(b, p) <= Len(b) /\ Has(b, p + 8, 8 * V64(b, p))
    THEN p + 8 + 8 * V64(b, p) ELSE Fail

\* a State: clock, data, members, term, leader
SkipState(b, p) ==
    LET data == SkipU64(b, p)
        pairs == IF data # Fail /\ Has(b, data, 8)
                 THEN SkipPairs(b, data + 8, V64(b, data)) ELSE Fail
    IN SkipOption(b, SkipU64(b, SkipMembers(b, pairs)))

\* bincode::deserialize::<WALEntry> of the bytes of an entry
Decode(b) ==
    LET failed == [ok |-> FALSE, rec |-> WalCommit(0)]
        tag == V32(b, 1)
    IN IF ~Has(b, 1, 4) THEN failed
       ELSE IF tag = 0 /\ Has(b, 5, 16) /\ SkipTransition(b, 21) # Fail
       THEN [ok |-> TRUE,
             rec |-> [type |-> "LogEntry", index |-> V64(b, 5), term |-> V64(b, 13),
                      transition |-> SubSeq(b, 21, SkipTransition(b, 21) - 1)]]
       ELSE IF tag = 1 /\ Has(b, 5, 16) /\ SkipState(b, 21) # Fail
       THEN [ok |-> TRUE,
             rec |-> [type |-> "Snapshot", index |-> V64(b, 5), term |-> V64(b, 13),
                      state |-> SubSeq(b, 21, SkipState(b, 21) - 1)]]
       ELSE IF tag = 2 /\ Has(b, 5, 8) /\ SkipOption(b, 13) # Fail
       THEN [ok |-> TRUE,
             rec |-> [type |-> "Metadata", current_term |-> V64(b, 5),
                      voted_for |-> IF b[13] = 0 THEN <<>> ELSE <<V64(b, 14)>>]]
       ELSE IF tag = 3 /\ Has(b, 5, 8)
       THEN [ok |-> TRUE, rec |-> WalCommit(V64(b, 5))]
       ELSE failed

\* BufWriter::write_all: the file and the buffer after the bytes are written
BufWrite(file, buf, bytes) ==
    IF Len(bytes) < BufCapacity - Len(buf)
    THEN [file |-> file, buf |-> buf \o bytes]
    ELSE LET flush == Len(bytes) > BufCapacity - Len(buf)
             f1 == IF flush THEN file \o buf ELSE file
             b1 == IF flush THEN <<>> ELSE buf
         IN IF Len(bytes) >= BufCapacity
            THEN [file |-> f1 \o bytes, buf |-> b1]
            ELSE [file |-> f1, buf |-> b1 \o bytes]

\* the inner loop of WAL::read_all on the bytes of one segment
RECURSIVE ReadFile(_)
ReadFile(bytes) ==
    LET failed == [ok |-> FALSE, entries |-> <<>>]
    IN IF Len(bytes) < 4 THEN [ok |-> TRUE, entries |-> <<>>]
       ELSE LET len == V32(bytes, 1)
                entry == Decode(SubSeq(bytes, 5, 4 + len))
                rest == ReadFile(SubSeq(bytes, 5 + len, Len(bytes)))
            IN IF Len(bytes) - 4 < len THEN failed
               ELSE IF ~entry.ok THEN failed
               ELSE IF ~rest.ok THEN failed
               ELSE [ok |-> TRUE, entries |-> <<entry.rec>> \o rest.entries]

\* WAL::read_all over the segments 0..=current_index
RECURSIVE ReadSegments(_)
ReadSegments(files) ==
    IF files = <<>> THEN [ok |-> TRUE, entries |-> <<>>]
    ELSE LET first == ReadFile(Head(files))
             rest == ReadSegments(Tail(files))
         IN IF first.ok /\ rest.ok
            THEN [ok |-> TRUE, entries |-> first.entries \o rest.entries]
            ELSE [ok |-> FALSE, entries |-> <<>>]

ReadAll(w) == ReadSegments(SubSeq(w.files, 1, w.current_index + 1))

\* the records a reader finds in the files of the directory
DurableRecords == ReadSegments(wal.files).entries

\* the configurations and the records of the model
WalConfigs == [sync_on_write : BOOLEAN, max_file_size : {SmallMaxFileSize, DefaultMaxFileSize}]

WalRecords == {WalCommit(1), WalMetadata(1, 1), WalLogEntry(Entry(1, 1, 1, 1))}

NoResult == [op |-> "none", ok |-> TRUE, entries |-> <<>>]

\* the bytes a file holds after more are written at its end
Extend(files, bytes) == [files EXCEPT ![Len(files)] = @ \o bytes]

\* the number of leading records of a stream whose frames fit in n bytes
RECURSIVE IntactCount(_, _)
IntactCount(stream, n) ==
    IF stream = <<>> \/ Len(Frame(Head(stream))) > n THEN 0
    ELSE 1 + IntactCount(Tail(stream), n - Len(Frame(Head(stream))))

RECURSIVE FramesLen(_)
FramesLen(stream) ==
    IF stream = <<>> THEN 0 ELSE Len(Frame(Head(stream))) + FramesLen(Tail(stream))

\* WAL::create on a directory that does not exist yet
WalCreate(config) ==
    /\ ~wal.handle
    /\ wal.files = <<>>
    /\ wal' = [wal EXCEPT !.files = << <<>> >>, !.handle = TRUE, !.config = config,
                          !.buf = <<>>, !.current_index = 0, !.bytes_written = 0,
                          !.result = NoResult]
    /\ UNCHANGED <<vsmVars, raftVars, nodeVars, clusterVars, callVars, storeVars, taskVars>>

\* WAL::open on the directory, with the configuration it was created with
WalOpen ==
    /\ ~wal.handle
    /\ wal.files # <<>>
    /\ wal' = [wal EXCEPT !.handle = TRUE, !.buf = <<>>,
                          !.current_index = Len(wal.files) - 1,
                          !.bytes_written = 0, !.result = NoResult]
    /\ UNCHANGED <<vsmVars, raftVars, nodeVars, clusterVars, callVars, storeVars, taskVars>>

\* WAL::append, with WAL::rotate
WalAppend(rec) ==
    /\ wal.handle
    /\ Len(wal.appended) < MaxAppends
    /\ LET bytes == Encode(rec)
           w1 == BufWrite(wal.files[Len(wal.files)], wal.buf, U32(Len(bytes)))
           w2 == BufWrite(w1.file, w1.buf, bytes)
           file == IF wal.config.sync_on_write THEN w2.file \o w2.buf ELSE w2.file
           buf == IF wal.config.sync_on_write THEN <<>> ELSE w2.buf
           written == wal.bytes_written + 4 + Len(bytes)
           rotates == written >= wal.config.max_file_size
           files == [wal.files EXCEPT ![Len(wal.files)] = IF rotates THEN file \o buf ELSE file]
       IN wal' = [wal EXCEPT
                     !.files = IF rotates THEN Append(files, <<>>) ELSE files,
                     !.buf = IF rotates THEN <<>> ELSE buf,
                     !.current_index = IF rotates THEN @ + 1 ELSE @,
                     !.bytes_written = IF rotates THEN 0 ELSE written,
                     !.result = NoResult,
                     !.appended = Append(@, rec),
                     !.resumed = @ + 1]
    /\ UNCHANGED <<vsmVars, raftVars, nodeVars, clusterVars, callVars, storeVars, taskVars>>

\* WAL::sync
WalSync ==
    /\ wal.handle
    /\ wal' = [wal EXCEPT !.files = Extend(@, wal.buf), !.buf = <<>>, !.result = NoResult]
    /\ UNCHANGED <<vsmVars, raftVars, nodeVars, clusterVars, callVars, storeVars, taskVars>>

\* WAL::read_all
WalReadAll ==
    /\ wal.handle
    /\ wal.result.op = "none"
    /\ wal' = [wal EXCEPT !.result = [op |-> "read_all", ok |-> ReadAll(wal).ok,
                                      entries |-> ReadAll(wal).entries]]
    /\ UNCHANGED <<vsmVars, raftVars, nodeVars, clusterVars, callVars, storeVars, taskVars>>

\* the WAL object is dropped: its BufWriter writes out what it holds
WalClose ==
    /\ wal.handle
    /\ wal' = [wal EXCEPT !.files = Extend(@, wal.buf), !.buf = <<>>,
                          !.handle = FALSE, !.result = NoResult]
    /\ UNCHANGED <<vsmVars, raftVars, nodeVars, clusterVars, callVars, storeVars, taskVars>>

\* the machine goes down while WAL::append(rec) runs: the buffer is lost,
\* and of the bytes on their way to the file (what the buffer held, then the
\* frame of rec) the first cut have reached it.  The records appended are
\* from then on those the file holds whole; what is left of the next one is
\* the partial record
WalCrash(rec, cut) ==
    /\ wal.handle
    /\ wal.torn = "none"
    /\ wal.crashes < MaxCrashes
    /\ Len(wal.appended) < MaxAppends
    /\ cut <= Len(wal.buf \o Frame(rec))
    /\ LET files == Extend(wal.files, SubSeq(wal.buf \o Frame(rec), 1, cut))
           stream == Append(wal.appended, rec)
           total == FramesLen(wal.appended) - Len(wal.buf) + cut
           intact == SubSeq(stream, 1, IntactCount(stream, total))
           left == total - FramesLen(intact)
       IN wal' = [wal EXCEPT
                     !.files = files, !.buf = <<>>, !.handle = FALSE,
                     !.result = NoResult,
                     !.appended = intact,
                     !.crashes = @ + 1,
                     !.torn = IF left = 0 THEN "none"
                              ELSE IF left < 4 THEN "prefix" ELSE "body",
                     !.resumed = 0]
    /\ UNCHANGED <<vsmVars, raftVars, nodeVars, clusterVars, callVars, storeVars, taskVars>>

NextWal ==
    \/ \E config \in WalConfigs : WalCreate(config)
    \/ WalOpen
    \/ \E rec \in WalRecords : WalAppend(rec)
    \/ WalSync
    \/ WalReadAll
    \/ WalClose
    \/ \E rec \in WalRecords :
         \E cut \in 0..Len(wal.buf \o Frame(rec)) : WalCrash(rec, cut)

SpecWal == InitCluster /\ [][NextWal]_vars

(***************************************************************************)
(* The snapshot directory (SnapshotManager, core/storage.rs).  A file is   *)
(* its name and its bytes.  Every name is "snapshot-", the last_index      *)
(* written with at least 8 digits, and ".snap"; the names are compared as  *)
(* the directory listing is sorted, byte by byte, so a name is kept as the *)
(* character codes of its digits followed by that of the '.'.              *)
(***************************************************************************)

\* SnapshotConfig::default().keep_snapshots
KeepDefault == 3

\* the width of {:08}
NameWidth == 8

\* the decimal digits of n
RECURSIVE Digits(_)
Digits(n) == IF n < 10 THEN <<n>> ELSE Digits(n \div 10) \o <<n % 10>>

\* format!("snapshot-{:08}.snap", last_index), from the digits to the '.'
FileName(last_index) ==
    LET d == Digits(last_index)
        padded == IF Len(d) >= NameWidth THEN d
                  ELSE [i \in 1..(NameWidth - Len(d)) |-> 0] \o d
    IN [i \in 1..Len(padded) |-> 48 + padded[i]] \o <<46>>

\* the order of sort_by_key(|e| e.file_name())
RECURSIVE NameLess(_, _)
NameLess(a, b) ==
    IF a = <<>> THEN b # <<>>
    ELSE IF b = <<>> THEN FALSE
    ELSE IF Head(a) # Head(b) THEN Head(a) < Head(b)
    ELSE NameLess(Tail(a), Tail(b))

\* snapshots.first() and snapshots.last() of the sorted listing
FirstFile(files) == CHOOSE f \in files : \A g \in files \ {f} : NameLess(f.name, g.name)
LastFile(files) == CHOOSE f \in files : \A g \in files \ {f} : NameLess(g.name, f.name)

\* the sequences of a sequence, one after the other
RECURSIVE Concat(_)
Concat(seqs) == IF seqs = <<>> THEN <<>> ELSE Head(seqs) \o Concat(Tail(seqs))

\* bincode::serialize of a State
EncodeState(s) ==
    U64(s.clock)
    \o U64(Len(s.data))
    \o Concat([i \in 1..Len(s.data) |->
                  U64(1) \o <<48 + s.data[i].key>> \o U64(1) \o <<s.data[i].value>>])
    \o U64(Len(s.members))
    \o Concat([i \in 1..Len(s.members) |-> U64(s.members[i])])
    \o U64(s.term)
    \o (IF s.leader = NoNode THEN <<0>> ELSE <<1>> \o U64(s.leader))

\* bincode::serialize of a Snapshot
EncodeSnapshot(snapshot) ==
    U64(snapshot.last_index) \o U64(snapshot.last_term)
    \o EncodeState(snapshot.state) \o U64(snapshot.timestamp)

\* the n entries of a HashMap<String, Vec<u8>> that start at p
RECURSIVE DecodePairs(_, _, _)
DecodePairs(b, p, n) ==
    IF n = 0 THEN <<>>
    ELSE LET v == SkipString(b, p)
         IN <<[key |-> IF V64(b, p) = 1 THEN b[p + 8] - 48 ELSE OutOfRange,
               value |-> IF V64(b, v) = 1 THEN b[v + 8] ELSE OutOfRange]>>
            \o DecodePairs(b, SkipBytes(b, v), n - 1)

\* the n node ids of a Vec<NodeId> that start at p
RECURSIVE DecodeIds(_, _, _)
DecodeIds(b, p, n) ==
    IF n = 0 THEN <<>> ELSE <<V64(b, p)>> \o DecodeIds(b, p + 8, n - 1)

\* bincode::deserialize of the State that starts at p and is whole
DecodeState(b, p) ==
    LET pairs == SkipPairs(b, p + 16, V64(b, p + 8))
        members == SkipMembers(b, pairs)
    IN [clock |-> V64(b, p),
        data |-> DecodePairs(b, p + 16, V64(b, p + 8)),
        members |-> DecodeIds(b, pairs + 8, V64(b, pairs)),
        term |-> V64(b, members),
        leader |-> IF b[members + 8] = 0 THEN NoNode ELSE V64(b, members + 9)]

NoSnapshot == [last_index |-> 0, last_term |-> 0, state |-> NewState, timestamp |-> 0]

\* bincode::deserialize::<Snapshot> of the bytes of a file
DecodeSnapshot(b) ==
    IF Has(b, 1, 16) /\ SkipU64(b, SkipState(b, 17)) # Fail
    THEN [ok |-> TRUE,
          snapshot |-> [last_index |-> V64(b, 1), last_term |-> V64(b, 9),
                        state |-> DecodeState(b, 17),
                        timestamp |-> V64(b, SkipState(b, 17))]]
    ELSE [ok |-> FALSE, snapshot |-> NoSnapshot]

\* File::create and the write: the file of that name holds the bytes
PutFile(files, name, bytes) ==
    {f \in files : f.name # name} \cup {[name |-> name, bytes |-> bytes]}

\* SnapshotManager::cleanup
RECURSIVE Cleanup(_, _)
Cleanup(files, keep) ==
    IF Cardinality(files) > keep
    THEN Cleanup(files \ {FirstFile(files)}, keep)
    ELSE files

\* SnapshotManager::load_latest on the files of the directory
LoadLatest(files) ==
    IF files = {} THEN [ok |-> TRUE, found |-> FALSE, snapshot |-> NoSnapshot]
    ELSE LET d == DecodeSnapshot(LastFile(files).bytes)
         IN [ok |-> d.ok, found |-> d.ok, snapshot |-> d.snapshot]

NoLoad == [op |-> "none", ok |-> TRUE, found |-> FALSE, snapshot |-> NoSnapshot]

\* the snapshots of the model
SnapIndexes == {1, 2, 99999999, 100000000}

Snapshots ==
    [last_index : SnapIndexes, last_term : {1}, state : {NewState}, timestamp : {0}]

\* SnapshotManager::new
SnapNew(keep) ==
    /\ ~snaps.handle
    /\ snaps' = [snaps EXCEPT !.handle = TRUE, !.keep_snapshots = keep]
    /\ UNCHANGED <<vsmVars, raftVars, nodeVars, clusterVars, callVars, walVars, recovery, taskVars>>

\* SnapshotManager::save, with cleanup
SnapSave(snapshot) ==
    /\ snaps.handle
    /\ snaps.saves < MaxSaves
    /\ snaps' = [snaps EXCEPT
                   !.files = Cleanup(PutFile(@, FileName(snapshot.last_index),
                                             EncodeSnapshot(snapshot)),
                                     snaps.keep_snapshots),
                   !.result = NoLoad,
                   !.saves = @ + 1,
                   !.since = IF snaps.crashes > 0 THEN @ + 1 ELSE @]
    /\ UNCHANGED <<vsmVars, raftVars, nodeVars, clusterVars, callVars, walVars, recovery, taskVars>>

\* SnapshotManager::load_latest
SnapLoadLatest ==
    /\ snaps.handle
    /\ snaps.result.op = "none"
    /\ snaps' = [snaps EXCEPT !.result =
                    [op |-> "load_latest", ok |-> LoadLatest(snaps.files).ok,
                     found |-> LoadLatest(snaps.files).found,
                     snapshot |-> LoadLatest(snaps.files).snapshot]]
    /\ UNCHANGED <<vsmVars, raftVars, nodeVars, clusterVars, callVars, walVars, recovery, taskVars>>

\* the process goes down during SnapshotManager::save(snapshot): File::create
\* has made the file, empty, and the first cut bytes have been written to it
SnapCrash(snapshot, cut) ==
    /\ snaps.handle
    /\ snaps.saves < MaxSaves
    /\ snaps.crashes < MaxCrashes
    /\ cut < Len(EncodeSnapshot(snapshot))
    /\ snaps' = [snaps EXCEPT
                   !.files = PutFile(@, FileName(snapshot.last_index),
                                     SubSeq(EncodeSnapshot(snapshot), 1, cut)),
                   !.result = NoLoad,
                   !.crashes = @ + 1,
                   !.since = 0,
                   !.previous = LoadLatest(snaps.files),
                   !.attempt = snapshot]
    /\ UNCHANGED <<vsmVars, raftVars, nodeVars, clusterVars, callVars, walVars, recovery, taskVars>>

NextSnap ==
    \/ \E keep \in {1, KeepDefault} : SnapNew(keep)
    \/ \E snapshot \in Snapshots : SnapSave(snapshot)
    \/ SnapLoadLatest
    \/ \E snapshot \in Snapshots :
         \E cut \in 0..Len(EncodeSnapshot(snapshot)) : SnapCrash(snapshot, cut)

SpecSnap == InitCluster /\ [][NextSnap]_vars

(***************************************************************************)
(* Crash recovery (RecoveryManager, core/recovery.rs) of a node that       *)
(* writes every transition it takes to its WAL as a LogEntry record,       *)
(* numbered from 1, and saves the state it has reached as a snapshot.      *)
(* Neither the map that bincode::deserialize builds nor the one that       *)
(* Transition::apply fills keeps an order of the entries from one run to   *)
(* the next: recover returns the entries in any order.                     *)
(***************************************************************************)

\* bincode::deserialize of the Transition the bytes hold
DecodeTransition(b) ==
    LET v == SkipString(b, 5)
        key == IF V64(b, 5) = 1 THEN b[13] - 48 ELSE OutOfRange
    IN CASE V32(b, 1) = 0 ->
              [type |-> "Write", key |-> key,
               value |-> IF V64(b, v) = 1 THEN b[v + 8] ELSE OutOfRange]
         [] V32(b, 1) = 1 -> [type |-> "Delete", key |-> key]
         [] V32(b, 1) = 2 -> [type |-> "AddMember", node_id |-> V64(b, 5)]
         [] V32(b, 1) = 3 -> [type |-> "RemoveMember", node_id |-> V64(b, 5)]
         [] OTHER -> [type |-> "ElectLeader", node_id |-> V64(b, 5), term |-> V64(b, 13)]

\* the replay loop of RecoveryManager::recover over the entries read
RECURSIVE Replay(_, _)
Replay(entries, state) ==
    IF entries = <<>> THEN state
    ELSE LET entry == Head(entries)
             next == CASE entry.type = "LogEntry" ->
                            Apply(DecodeTransition(entry.transition), state,
                                  Len(state.data) + 1)
                       [] entry.type = "Snapshot" -> DecodeState(entry.state, 1)
                       [] OTHER -> state
         IN Replay(Tail(entries), next)

\* RecoveryManager::recover that removes the content of the segments once it
\* has replayed them
RecoverOutcome_Consuming(files, w) ==
    LET snap == LoadLatest(files)
        read == ReadAll(w)
        first == IF snap.found THEN snap.snapshot.state ELSE NewState
    IN IF ~snap.ok \/ ~read.ok
       THEN [ok |-> FALSE, state |-> NewState, files |-> files, wal |-> w]
       ELSE [ok |-> TRUE, state |-> Replay(read.entries, first), files |-> files,
             wal |-> [w EXCEPT !.files = [i \in 1..Len(w.files) |-> <<>>]]]

\* RecoveryManager::recover on the files of the snapshot directory and the
\* WAL: what it returns, and the files and the WAL it leaves
RecoverOutcome(files, w) ==
    LET snap == LoadLatest(files)
        read == ReadAll(w)
        first == IF snap.found THEN snap.snapshot.state ELSE NewState
    IN IF ~snap.ok \/ ~read.ok
       THEN [ok |-> FALSE, state |-> NewState, files |-> files, wal |-> w]
       ELSE [ok |-> TRUE, state |-> Replay(read.entries, first), files |-> files,
             wal |-> w]

\* the orders in which a map of the given entries may enumerate them
Orders(d) ==
    {o \in [1..Len(d) -> 1..Len(d)] : \A i, j \in 1..Len(d) : o[i] = o[j] => i = j}

\* RecoveryManager::recover
Recover ==
    /\ wal.handle
    /\ snaps.handle
    /\ Len(recovery) < MaxRecovers
    /\ \E out \in {RecoverOutcome(snaps.files, wal)} :
         \E order \in Orders(out.state.data) :
            /\ recovery' = Append(recovery,
                  [ok |-> out.ok,
                   state |-> [out.state EXCEPT !.data =
                                 [i \in 1..Len(@) |-> out.state.data[order[i]]]]])
            /\ wal' = out.wal
            /\ snaps' = [snaps EXCEPT !.files = out.files]
    /\ UNCHANGED <<vsmVars, raftVars, nodeVars, clusterVars, callVars, taskVars>>

\* WAL::compact: the WAL it leaves
Compact(w, before_index) == w

\* what the node takes
RecoverTransitions ==
    {[type |-> "Write", key |-> 1, value |-> 1],
     [type |-> "Write", key |-> 1, value |-> 2],
     [type |-> "Delete", key |-> 1]}

\* the transitions of the LogEntry records among the given records, in order
RECURSIVE LoggedTransitions(_)
LoggedTransitions(records) ==
    IF records = <<>> THEN <<>>
    ELSE (IF Head(records).type = "LogEntry"
          THEN <<DecodeTransition(Head(records).transition)>> ELSE <<>>)
         \o LoggedTransitions(Tail(records))

\* the state a node reaches by taking the transitions once each, in order
RECURSIVE StateAfter(_, _)
StateAfter(ts, state) ==
    IF ts = <<>> THEN state
    ELSE StateAfter(Tail(ts), Apply(Head(ts), state, Len(state.data) + 1))

\* the snapshot of the state the node has reached with the entries logged
CurrentSnapshot ==
    [last_index |-> Len(wal.appended), last_term |-> 1,
     state |-> StateAfter(LoggedTransitions(wal.appended), NewState),
     timestamp |-> 0]

\* the node saves the state it has reached and compacts its WAL up to the
\* entry the snapshot covers
SnapshotAndCompact ==
    /\ wal.handle
    /\ wal.appended # <<>>
    /\ snaps.saves < MaxSnapshots
    /\ SnapSave(CurrentSnapshot)
    /\ wal' = Compact(wal, Len(wal.appended))

\* what the node does until it is restarted to recover
NodeStep ==
    /\ recovery = <<>>
    /\ \/ \E sync \in BOOLEAN :
            WalCreate([sync_on_write |-> sync, max_file_size |-> DefaultMaxFileSize])
       \/ SnapNew(KeepDefault)
       \/ \E t \in RecoverTransitions :
            Len(wal.appended) < MaxLogged /\ WalAppend(WalLogEntry([term |-> 1, index |-> Len(wal.appended) + 1,
                                   transition |-> t]))
       \/ SnapshotAndCompact
       \/ WalClose
       \/ WalOpen
       \/ \E t \in RecoverTransitions :
            \E cut \in {0, Len(wal.buf), Len(wal.buf) + 2, Len(wal.buf) + 6} :
               Len(wal.appended) < MaxLogged /\ WalCrash(WalLogEntry([term |-> 1, index |-> Len(wal.appended) + 1,
                                     transition |-> t]), cut)

NextRecover ==
    \/ NodeStep
    \/ Recover

SpecRecover == InitCluster /\ [][NextRecover]_vars

\* the index of the latest Commit record among the given records, 0 if none
RECURSIVE CommitIndex(_)
CommitIndex(records) ==
    IF records = <<>> THEN 0
    ELSE IF records[Len(records)].type = "Commit" THEN records[Len(records)].index
    ELSE CommitIndex(SubSeq(records, 1, Len(records) - 1))

\* the LogEntry records among the given records whose index is at most limit
RECURSIVE EntriesUpTo(_, _)
EntriesUpTo(records, limit) ==
    IF records = <<>> THEN <<>>
    ELSE (IF Head(records).type = "LogEntry" /\ Head(records).index <= limit
          THEN <<Head(records)>> ELSE <<>>)
         \o EntriesUpTo(Tail(records), limit)

\* the number of LogEntry records among the given records
Logged(records) == Len(LoggedTransitions(records))

\* a node that writes to its WAL every entry it takes into its log and, as
\* a Commit record, every commit index it learns, until it is restarted to
\* recover
CommitStep ==
    /\ recovery = <<>>
    /\ \/ \E sync \in BOOLEAN :
            WalCreate([sync_on_write |-> sync, max_file_size |-> DefaultMaxFileSize])
       \/ SnapNew(KeepDefault)
       \/ \E t \in RecoverTransitions :
            WalAppend(WalLogEntry([term |-> 1, index |-> Logged(wal.appended) + 1,
                                   transition |-> t]))
       \/ \E index \in 1..Logged(wal.appended) : WalAppend(WalCommit(index))
       \/ WalSync

NextCommitted ==
    \/ CommitStep
    \/ Recover

SpecCommitted == InitCluster /\ [][NextCommitted]_vars

(***************************************************************************)
(* One VerifiedStateMachine shared by tasks (core/lib.rs).  execute takes  *)
(* &self; with verification on it holds the write guard of shadow_model in *)
(* one block and the write guard of runtime_state in the next, and no lock *)
(* in between.  A step of a task is one such block.                        *)
(***************************************************************************)

\* what the tasks execute: transitions on one key, so that the enumeration
\* order of the map plays no part
SharedTransitions ==
    {t \in Transitions : t.type \in {"Write", "Delete"} => t.key = 1}

\* execute with verification on, by task k, step 1: the block under the
\* write guard of shadow_model, which yields expected_hash
ExecuteShadow(k, t, slot) ==
    /\ verification_enabled
    /\ calls < MaxExec
    /\ tasks[k].pc = "idle"
    /\ shadow_model' = Apply(t, shadow_model, slot)
    /\ tasks' = [tasks EXCEPT ![k].pc = "shadowed", ![k].arg = t,
                              ![k].expected = Hash(shadow_model'),
                              ![k].result = "none"]
    /\ last_transition' = t
    /\ calls' = calls + 1
    /\ UNCHANGED <<verification_enabled, runtime_state, state_before, last_result>>
    /\ UNCHANGED <<raftVars, nodeVars, clusterVars, callVars, walVars, storeVars, raft_lock>>

\* execute with verification on, by task k, steps 2 and 3: the block under
\* the write guard of runtime_state, which yields actual_hash, and the
\* comparison of the two hashes
ExecuteRuntime(k, slot) ==
    /\ tasks[k].pc = "shadowed"
    /\ runtime_state' = Apply(tasks[k].arg, runtime_state, slot)
    /\ LET actual_hash == Hash(runtime_state')
           result == IF tasks[k].expected # actual_hash THEN "StateDivergence" ELSE "Ok"
       IN /\ tasks' = [tasks EXCEPT ![k].pc = "idle", ![k].result = result,
                                    ![k].done = @ + 1]
          /\ last_result' = result
    /\ state_before' = runtime_state
    /\ UNCHANGED <<verification_enabled, shadow_model, last_transition, calls>>
    /\ UNCHANGED <<raftVars, nodeVars, clusterVars, callVars, walVars, storeVars, raft_lock>>

\* the tasks call execute on the shared machine, each at its own pace
NextShared ==
    \/ \E k \in Tasks, t \in SharedTransitions :
         \E slot \in Slots(t, shadow_model.data) : ExecuteShadow(k, t, slot)
    \/ \E k \in Tasks :
         \E slot \in Slots(tasks[k].arg, runtime_state.data) : ExecuteRuntime(k, slot)

SpecShared == InitCluster /\ [][NextShared]_vars

(***************************************************************************)
(* The RaftNode of node Self behind its lock (core/distributed.rs).  The   *)
(* node holds it as Arc<RwLock<RaftNode>> and every call on it is made on  *)
(* a write guard taken for that call: self.raft.write().tick() and         *)
(* self.raft.write().handle_message(msg) in run_event_loop.  start takes   *)
(* &self, so more than one task may run an event loop on the node.  A step *)
(* of a task is the taking of the guard, a group of assignments of the     *)
(* handler it runs, or the return that drops the guard.                    *)
(***************************************************************************)

\* run_event_loop of task k gets to self.raft.write().tick(); elapsed says
\* whether the election timeout has run out by then
LoopTick(k, elapsed) ==
    /\ running
    /\ tasks[k].pc = "idle"
    /\ tasks[k].done < MaxRounds
    /\ tasks' = [tasks EXCEPT ![k].pc = "wait", ![k].arg = [type |-> "tick"],
                              ![k].elapsed = elapsed]
    /\ UNCHANGED <<vsmVars, raftVars, nodeVars, clusterVars, callVars, walVars, storeVars, raft_lock>>

\* run_event_loop of task k gets to self.raft.write().handle_message(msg)
LoopHandle(k, msg) ==
    /\ running
    /\ tasks[k].pc = "idle"
    /\ tasks[k].done < MaxRounds
    /\ tasks' = [tasks EXCEPT ![k].pc = "wait", ![k].arg = msg, ![k].elapsed = FALSE]
    /\ UNCHANGED <<vsmVars, raftVars, nodeVars, clusterVars, callVars, walVars, storeVars, raft_lock>>

\* RwLock::write with the lock given to whoever asks
RaftWrite_NoLock(k) ==
    /\ tasks[k].pc = "wait"
    /\ raft_lock' = k
    /\ LET node == [raft[Self] EXCEPT !.expired = @ \/ tasks[k].elapsed]
       IN /\ raft' = [raft EXCEPT ![Self] = node]
          /\ tasks' = [tasks EXCEPT ![k].pc = IF tasks[k].arg.type = "tick" THEN "tick" ELSE "handle",
                                    ![k].before = node]
    /\ UNCHANGED <<messages, votes_received, elected, elections>>
    /\ UNCHANGED <<vsmVars, nodeVars, clusterVars, callVars, walVars, storeVars>>

\* RwLock::write on the raft lock by task k: the task gets the write guard
\* when no task holds it, and the handler starts on the node as it is then
RaftWrite(k) ==
    /\ tasks[k].pc = "wait"
    /\ raft_lock = NoTask
    /\ raft_lock' = k
    /\ LET node == [raft[Self] EXCEPT !.expired = @ \/ tasks[k].elapsed]
       IN /\ raft' = [raft EXCEPT ![Self] = node]
          /\ tasks' = [tasks EXCEPT ![k].pc = IF tasks[k].arg.type = "tick" THEN "tick" ELSE "handle",
                                    ![k].before = node]
    /\ UNCHANGED <<messages, votes_received, elected, elections>>
    /\ UNCHANGED <<vsmVars, nodeVars, clusterVars, callVars, walVars, storeVars>>

\* RaftNode::tick in task k: the match on the role.  A Leader sends its
\* heartbeats, which assigns nothing; the others start an election if the
\* timeout has run out
TickMatch(k) ==
    /\ tasks[k].pc = "tick"
    /\ tasks' = [tasks EXCEPT ![k].pc =
            IF raft[Self].role \in {"Follower", "Candidate"} /\ raft[Self].expired
            THEN "election" ELSE "return"]
    /\ UNCHANGED <<vsmVars, raftVars, nodeVars, clusterVars, callVars, walVars, storeVars, raft_lock>>

\* RaftNode::start_election in task k: the increment of the term
ElectionTerm(k) ==
    /\ tasks[k].pc = "election"
    /\ raft' = [raft EXCEPT ![Self].current_term = @ + 1]
    /\ tasks' = [tasks EXCEPT ![k].pc = "candidate"]
    /\ UNCHANGED <<messages, votes_received, elected, elections>>
    /\ UNCHANGED <<vsmVars, nodeVars, clusterVars, callVars, walVars, storeVars, raft_lock>>

\* RaftNode::start_election in task k: the role, the vote for itself, the
\* reset of the election timer and the RequestVote messages
ElectionCandidate(k) ==
    /\ tasks[k].pc = "candidate"
    /\ raft' = [raft EXCEPT ![Self].role = "Candidate",
                            ![Self].voted_for = raft[Self].id,
                            ![Self].expired = FALSE]
    /\ tasks' = [tasks EXCEPT ![k].pc = "return"]
    /\ UNCHANGED <<messages, votes_received, elected, elections>>
    /\ UNCHANGED <<vsmVars, nodeVars, clusterVars, callVars, walVars, storeVars, raft_lock>>

\* RaftNode::handle_message in task k: the test of the message's term
HandleTerm(k) ==
    /\ tasks[k].pc = "handle"
    /\ raft' = [raft EXCEPT ![Self] = StepDown(raft[Self], tasks[k].arg.term)]
    /\ tasks' = [tasks EXCEPT ![k].pc = "dispatch"]
    /\ UNCHANGED <<messages, votes_received, elected, elections>>
    /\ UNCHANGED <<vsmVars, nodeVars, clusterVars, callVars, walVars, storeVars, raft_lock>>

\* RaftNode::handle_message in task k: the match on the payload and the
\* handler it calls (the term test, already made, finds nothing to do)
HandleDispatch(k) ==
    /\ tasks[k].pc = "dispatch"
    /\ raft' = [raft EXCEPT ![Self] = HandleMessage(raft[Self], tasks[k].arg).node]
    /\ tasks' = [tasks EXCEPT ![k].pc = "return"]
    /\ UNCHANGED <<messages, votes_received, elected, elections>>
    /\ UNCHANGED <<vsmVars, nodeVars, clusterVars, callVars, walVars, storeVars, raft_lock>>

\* the handler of task k returns and the write guard, a temporary of the
\* statement of the call, is dropped
RaftReturn(k) ==
    /\ tasks[k].pc = "return"
    /\ raft_lock' = NoTask
    /\ tasks' = [tasks EXCEPT ![k].pc = "idle", ![k].result = "Ok", ![k].done = @ + 1]
    /\ UNCHANGED <<vsmVars, raftVars, nodeVars, clusterVars, callVars, walVars, storeVars>>

\* task k is inside a handler of the RaftNode
InHandler(k) ==
    tasks[k].pc \in {"tick", "election", "candidate", "handle", "dispatch", "return"}

\* what the call of a task makes of the node it started on, run as a whole:
\* the node after the call
WholeCall(task) ==
    IF task.arg.type = "tick" THEN Tick(task.before).node
    ELSE HandleMessage(task.before, task.arg).node

NextLocked ==
    \/ NodeStart
    \/ \E k \in Tasks, elapsed \in BOOLEAN : LoopTick(k, elapsed)
    \/ \E k \in Tasks, msg \in Inbound(Self) : LoopHandle(k, msg)
    \/ \E k \in Tasks : RaftWrite(k)
    \/ \E k \in Tasks : TickMatch(k)
    \/ \E k \in Tasks : ElectionTerm(k)
    \/ \E k \in Tasks : ElectionCandidate(k)
    \/ \E k \in Tasks : HandleTerm(k)
    \/ \E k \in Tasks : HandleDispatch(k)
    \/ \E k \in Tasks : RaftReturn(k)

SpecLocked == InitCluster /\ [][NextLocked]_vars

Init == InitVSM /\ InitRaft /\ InitNode /\ InitExt

Next == \E t \in Transitions :
            \E slotLive \in Slots(t, runtime_state.data),
               slotShadow \in Slots(t, shadow_model.data) :
                Execute(t, slotLive, slotShadow)

Spec == Init /\ [][Next]_vars

(***************************************************************************)
(* Properties of the integrated node, checked under SpecNode.              *)
(***************************************************************************)

\* C4: once the node has observed a divergence fault, no propose call changes
\* the VSM state or the Raft log or returns Ok, and no inbound Raft message is
\* handled or answered
C4_HaltedIsTerminal ==
    [][halted =>
        /\ runtime_state' = runtime_state
        /\ shadow_model' = shadow_model
        /\ raft'[Self].log = raft[Self].log
        /\ calls' # calls => propose_result' \notin {"Ok", "RaftError"}
        /\ Len(incoming') >= Len(incoming)
        /\ sent' = {}]_vars

C34_CommittedIsApplied ==
    \A i \in 1..MaxLog :
        (raft[Self].commit_index >= i /\ raft[Self].last_applied < i)
            ~> (raft[Self].last_applied >= i /\ runtime_state.clock >= i)

(***************************************************************************)
(* Properties of a VerifiedStateMachine shared by tasks, checked under     *)
(* SpecShared.                                                             *)
(***************************************************************************)

\* C39: when tasks call execute on one shared VerifiedStateMachine and no
\* fault is injected, no call returns StateDivergence, and once every call
\* has returned the live state equals the shadow state
C39_SharedExecuteAtomic ==
    /\ \A k \in Tasks : tasks[k].result # "StateDivergence"
    /\ (\A k \in Tasks : tasks[k].pc = "idle")
           => StateEq(runtime_state, shadow_model)

(***************************************************************************)
(* Properties of the RaftNode behind its lock, checked under SpecLocked.   *)
(***************************************************************************)

\* C40: the handlers of a node's RaftNode are atomic with respect to each
\* other: no two tasks are inside a handler at once, and a handler that has
\* got to its return has made of the node what the whole call makes of the
\* node it started on
C40_HandlersAtomic ==
    /\ \A a, b \in Tasks : (InHandler(a) /\ InHandler(b)) => a = b
    /\ \A k \in Tasks : tasks[k].pc = "return" => raft[Self] = WholeCall(tasks[k])

\* a task is half way through start_election, the term incremented and the
\* role not yet Candidate, while another task waits for the lock with a
\* message to handle
C40_Witness ==
    \E a, b \in Tasks :
        /\ tasks[a].pc = "candidate"
        /\ raft[Self].current_term = tasks[a].before.current_term + 1
        /\ raft[Self].role = "Follower"
        /\ tasks[b].pc = "wait"
        /\ tasks[b].arg.type = "RequestVote"
        /\ tasks[b].done > 0

(***************************************************************************)
(* Properties of single calls on a RaftNode, checked under SpecProbe.      *)
(***************************************************************************)

C15_DurableBeforeAck ==
    \A m \in rcall.out :
        /\ m.type = "RequestVote"
              => WalMetadata(m.term, m.from) \in Range(DurableRecords)
        /\ (/\ m.type = "RequestVoteResponse"
            /\ m.vote_granted
            /\ (rcall.before.current_term # m.term \/ rcall.before.voted_for # m.to))
              => WalMetadata(m.term, m.to) \in Range(DurableRecords)
        /\ (m.type = "AppendEntriesResponse" /\ m.success)
              => \A j \in 1..Len(rcall.arg.entries) :
                    WalLogEntry(rcall.arg.entries[j]) \in Range(DurableRecords)

\* C17: RaftNode::propose on a node that is not Leader returns an error and
\* leaves the node as it was; on a Leader it returns Ok and the node differs
\* only in its log, which has one more entry, at the end, with the node's
\* current_term, the index of its place and the proposed transition
C17_ProposeContract ==
    LET before == rcall.before
        after == raft[Probe]
        entry == [term |-> before.current_term,
                  index |-> Len(before.log) + 1,
                  transition |-> rcall.arg]
    IN rcall.op = "propose"
        => IF before.role # "Leader"
           THEN ~rcall.ok /\ after = before
           ELSE /\ rcall.ok
                /\ after = [before EXCEPT !.log = Append(before.log, entry)]

\* a Leader with entries in its log has taken a proposal
C17_Witness ==
    /\ rcall.op = "propose"
    /\ rcall.before.role = "Leader"
    /\ Len(rcall.before.log) > 0
    /\ Len(raft[Probe].log) = Len(rcall.before.log) + 1

(***************************************************************************)
(* Properties of the write-ahead log, checked under SpecWal.               *)
(***************************************************************************)

\* C18: on a WAL that has seen no crash, under any configuration, read_all
\* succeeds and returns exactly the records appended so far, in append order
C18_ReadAllReturnsAppended ==
    (wal.result.op = "read_all" /\ wal.crashes = 0)
        => /\ wal.result.ok
           /\ wal.result.entries = wal.appended

\* C19: when a crash has left a partial record at the end of the last
\* segment, cut inside the length prefix or inside the payload, read_all on
\* the reopened WAL succeeds and returns exactly the records that are whole
C19_PartialTailTolerated ==
    (wal.result.op = "read_all" /\ wal.torn # "none" /\ wal.resumed = 0)
        => /\ wal.result.ok
           /\ wal.result.entries = wal.appended

\* C20: after WAL::open on a directory whose last segment ends in a record
\* with a whole length prefix and a cut body, with records appended since
\* and all of them written to the file, read_all succeeds and returns the
\* records that were whole followed by the records appended since: the
\* partial record is gone
C20_PartialDiscardedOnOpen ==
    (/\ wal.result.op = "read_all"
     /\ wal.torn = "body"
     /\ wal.resumed > 0
     /\ wal.buf = <<>>)
        => /\ wal.result.ok
           /\ wal.result.entries = wal.appended

\* C26: handle_message on a message of a term strictly greater than
\* current_term leaves the node a Follower of that term whose vote of the
\* older term is gone (its vote is empty, or the one the payload has just
\* granted); no call ever lowers current_term
C26_NewerTermStepsDown ==
    rcall.op # "none"
        => /\ raft[Probe].current_term >= rcall.before.current_term
           /\ (rcall.op = "handle_message"
                  /\ rcall.arg.term > rcall.before.current_term)
                 => /\ raft[Probe].current_term = rcall.arg.term
                    /\ raft[Probe].role = "Follower"
                    /\ \/ raft[Probe].voted_for = NoNode
                       \/ /\ rcall.arg.type = "RequestVote"
                          /\ raft[Probe].voted_for = rcall.arg.candidate_id
                          /\ \E reply \in rcall.out : reply.vote_granted

\* a Leader that had voted for itself receives a message of a newer term
C26_Witness ==
    /\ rcall.op = "handle_message"
    /\ rcall.arg.term > rcall.before.current_term
    /\ rcall.before.role = "Leader"
    /\ rcall.before.voted_for = Probe
    /\ raft[Probe].role = "Follower"
    /\ raft[Probe].voted_for = NoNode

\* C27: a node never casts two different votes in one term: while its term
\* stays the same, a vote it has cast (the one for itself included) stays
C27_OneVotePerTerm ==
    [][\A n \in Servers :
          (raft'[n].current_term = raft[n].current_term /\ raft[n].voted_for # NoNode)
              => raft'[n].voted_for = raft[n].voted_for]_vars

\* a node that has voted has refused another candidate of the same term
C27_Witness ==
    \E n \in Servers : \E reply \in messages :
        /\ raft[n].voted_for \notin {NoNode, n}
        /\ reply.type = "RequestVoteResponse"
        /\ reply.from = n
        /\ reply.to # raft[n].voted_for
        /\ reply.term = raft[n].current_term
        /\ ~reply.vote_granted
        /\ raft[reply.to].role = "Candidate"
        /\ raft[reply.to].current_term = reply.term

\* C28: a RequestVote is granted exactly when its term is at least the
\* node's, the node has no vote in that term or has voted for this candidate,
\* and the candidate's log is at least as up to date as the node's
C28_VoteGrantedIff ==
    (rcall.op = "handle_message" /\ rcall.arg.type = "RequestVote")
        => LET msg == rcall.arg
               before == rcall.before
               term_ok == msg.term >= before.current_term
               vote_ok == \/ msg.term > before.current_term
                          \/ before.voted_for \in {NoNode, msg.candidate_id}
               log_ok == \/ msg.last_log_term > LastLogTerm(before.log)
                         \/ /\ msg.last_log_term = LastLogTerm(before.log)
                            /\ msg.last_log_index >= Len(before.log)
           IN (\E reply \in rcall.out : reply.vote_granted)
                 <=> (term_ok /\ vote_ok /\ log_ok)

\* C30: an AppendEntries of a current term whose prev_log_index names an
\* entry the node's log does not have, or has with another term than
\* prev_log_term, is answered with success false and appends nothing
C30_PrevLogMismatchRejected ==
    (/\ rcall.op = "handle_message"
     /\ rcall.arg.type = "AppendEntries"
     /\ rcall.arg.term >= rcall.before.current_term
     /\ rcall.arg.prev_log_index > 0
     /\ \/ rcall.arg.prev_log_index > Len(rcall.before.log)
        \/ rcall.before.log[rcall.arg.prev_log_index].term # rcall.arg.prev_log_term)
        => /\ \A reply \in rcall.out : ~reply.success
           /\ raft[Probe].log = rcall.before.log

\* C29: the term and the vote of a node survive a crash and restart: across
\* every step, a restart included, the term of a node does not fall, and
\* within a term a vote cast is still the node's vote
C29_VoteSurvivesRestart ==
    [][\A n \in Servers :
          /\ raft'[n].current_term >= raft[n].current_term
          /\ raft[n].voted_for # NoNode
                => (raft'[n].voted_for = raft[n].voted_for
                      \/ raft'[n].current_term > raft[n].current_term)]_vars

\* C31: an AppendEntries of a term lower than the node's is answered with
\* success false and leaves the node as it was: log, commit_index, role,
\* current_term, voted_for and the election timer
C31_StaleAppendChangesNothing ==
    (/\ rcall.op = "handle_message"
     /\ rcall.arg.type = "AppendEntries"
     /\ rcall.arg.term < rcall.before.current_term)
        => /\ \A reply \in rcall.out : ~reply.success
           /\ raft[Probe] = rcall.before

\* C33: after every call on a node last_applied <= commit_index <= length of
\* the log, and commit_index is not below what it was before the call
C33_CommitWithinLog ==
    /\ raft[Probe].last_applied <= raft[Probe].commit_index
    /\ raft[Probe].commit_index <= Len(raft[Probe].log)
    /\ rcall.op # "none" => raft[Probe].commit_index >= rcall.before.commit_index

\* an AppendEntries whose leader_commit is beyond the end of the node's log
\* has moved commit_index up to the end of the log
C33_Witness ==
    /\ rcall.op = "handle_message"
    /\ rcall.arg.type = "AppendEntries"
    /\ rcall.arg.leader_commit > Len(raft[Probe].log)
    /\ raft[Probe].commit_index = Len(raft[Probe].log)
    /\ raft[Probe].commit_index > rcall.before.commit_index

(***************************************************************************)
(* Properties of the snapshot directory, checked under SpecSnap.           *)
(***************************************************************************)

\* C21: after saves that all returned, load_latest on a directory that holds
\* snapshots returns one, and none of the snapshots the directory holds has
\* a higher last_index than the one returned
C21_LoadLatestIsHighest ==
    (snaps.result.op = "load_latest" /\ snaps.crashes = 0 /\ snaps.files # {})
        => /\ snaps.result.ok
           /\ snaps.result.found
           /\ \A f \in snaps.files :
                 DecodeSnapshot(f.bytes).snapshot.last_index
                     <= snaps.result.snapshot.last_index

\* C22: when the process has gone down during a save, load_latest returns
\* what it would have returned before that save, or the whole snapshot the
\* save was writing; it does not fail
C22_CrashedSaveInvisible ==
    (snaps.result.op = "load_latest" /\ snaps.crashes > 0 /\ snaps.since = 0)
        => \/ /\ snaps.result.ok = snaps.previous.ok
              /\ snaps.result.found = snaps.previous.found
              /\ snaps.result.snapshot = snaps.previous.snapshot
           \/ /\ snaps.result.ok
              /\ snaps.result.found
              /\ snaps.result.snapshot = snaps.attempt

(***************************************************************************)
(* Properties of crash recovery, checked under SpecRecover.                *)
(***************************************************************************)

\* C23: with no snapshot in the directory, recover returns the state reached
\* by applying the transition of every LogEntry record appended to the WAL, in
\* order, to the empty State (n records give clock n)
C23_RecoverFoldsLog ==
    \A i \in 1..Len(recovery) :
        snaps.files = {}
            => /\ recovery[i].ok
               /\ StateEq(recovery[i].state,
                          StateAfter(LoggedTransitions(wal.appended), NewState))

\* C24: with a snapshot saved at entry k from the state the entries 1..k
\* produced, recover on a WAL whose records are all whole and on disk
\* returns the state the node had reached: no entry is applied twice
C24_RecoverSkipsSnapshotted ==
    \A i \in 1..Len(recovery) :
        (snaps.files # {} /\ wal.buf = <<>> /\ wal.torn = "none")
            => /\ recovery[i].ok
               /\ StateEq(recovery[i].state,
                          StateAfter(LoggedTransitions(wal.appended), NewState))

\* C25: recover is idempotent: a call leaves the WAL and the snapshot
\* directory as they were, and returns what every earlier call on them
\* returned (the same State, or an error again)
C25_RecoverIdempotent ==
    [][Len(recovery') > Len(recovery)
          => /\ wal' = wal
             /\ snaps' = snaps
             /\ \A i \in 1..Len(recovery) :
                   /\ recovery[i].ok = recovery'[Len(recovery')].ok
                   /\ StateEq(recovery[i].state, recovery'[Len(recovery')].state)]_vars

\* two calls of recover on a directory with a snapshot and a WAL with records
C25_Witness ==
    /\ Len(recovery) = 2
    /\ recovery[2].ok
    /\ recovery[2].state.clock > 0
    /\ snaps.files # {}
    /\ wal.appended # <<>>

(***************************************************************************)
(* Properties of the recovery of a WAL with Commit records, checked under  *)
(* SpecCommitted.                                                          *)
(***************************************************************************)

\* C35: with no snapshot and a WAL that is all on disk and holds a Commit
\* record, recover returns the state reached by the LogEntry records whose
\* index is at most the index of the latest Commit record: the records
\* beyond it do not count
C35_RecoverStopsAtCommit ==
    \A i \in 1..Len(recovery) :
        (snaps.files = {} /\ wal.buf = <<>> /\ CommitIndex(wal.appended) > 0)
            => /\ recovery[i].ok
               /\ StateEq(recovery[i].state,
                          StateAfter(LoggedTransitions(
                                         EntriesUpTo(wal.appended,
                                                     CommitIndex(wal.appended))),
                                     NewState))

(***************************************************************************)
(* Properties of the Raft cluster, checked under SpecRaft and FairSpecRaft.*)
(***************************************************************************)

\* the nodes that are Leader now
Leaders == {n \in Servers : raft[n].role = "Leader"}

\* C8: no two distinct nodes are or have been Leader for the same term
C8_ElectionSafety ==
    /\ \A a, b \in elected : a[2] = b[2] => a[1] = b[1]
    /\ \A a, b \in Leaders : raft[a].current_term = raft[b].current_term => a = b

\* two nodes stand for election in the same term and one of them has handled
\* the granted votes of a majority
C8_Witness ==
    \E a, b \in Servers :
        /\ a # b
        /\ raft[a].role = "Candidate"
        /\ raft[b].role = "Candidate"
        /\ raft[a].current_term = raft[b].current_term
        /\ Cardinality(votes_received[a] \cup {a}) >= (ClusterSize \div 2) + 1

\* C9: a Candidate that has received the granted votes of floor(N/2)+1
\* distinct voters of its current term, its own included, becomes Leader, and
\* a Candidate with fewer does not
C9_MajorityElects ==
    \A n \in Servers :
        LET got == Cardinality(votes_received[n] \cup {n})
        IN /\ raft[n].role = "Candidate" => got < (ClusterSize \div 2) + 1
           /\ raft[n].role = "Leader" => got >= (ClusterSize \div 2) + 1

\* C11: log matching: if the logs of two replicas hold an entry of the same
\* term at the same index, the two logs are identical up to that index
C11_LogMatching ==
    \A a, b \in Servers :
        \A i \in 1..Len(raft[a].log) :
            (i <= Len(raft[b].log) /\ raft[a].log[i].term = raft[b].log[i].term)
                => SubSeq(raft[a].log, 1, i) = SubSeq(raft[b].log, 1, i)

\* C12: state-machine safety: whatever two replicas hand to their
\* VerifiedStateMachines as the i-th transition is the same transition
C12_StateMachineSafety ==
    \A a, b \in Servers :
        \A i \in 1..Len(replicas[a].delivered) :
            i <= Len(replicas[b].delivered)
                => replicas[a].delivered[i] = replicas[b].delivered[i]

C32_IndexesDense ==
    \A n \in Servers : \A k \in 1..Len(raft[n].log) : raft[n].log[k].index = k

(***************************************************************************)
(* Properties of the verified state machine, checked under Spec.           *)
(***************************************************************************)

\* C1: with verification enabled, every execute call of a sequential run on a
\* fresh machine returns Ok and leaves the live state equal to the shadow state
C1_SequentialExecuteOk ==
    verification_enabled =>
        /\ last_result # "StateDivergence"
        /\ StateEq(runtime_state, shadow_model)

\* C2: two States with equal clock, term, leader, members and data mapping
\* have equal digests, whatever the enumeration order of their data
C2_HashDependsOnValueOnly ==
    StateEq(runtime_state, shadow_model) => Hash(runtime_state) = Hash(shadow_model)

\* C3: when execute returns the divergence error the live state is the state
\* from before the call
C3_DivergenceNotInstalled ==
    last_result = "StateDivergence" => StateEq(runtime_state, state_before)

\* C5: every execute call increments the clock by exactly 1, whatever the
\* variant and whether or not it has an effect, so after n calls on a fresh
\* machine the clock is n
C5_ClockCountsExecutes ==
    /\ runtime_state.clock = calls
    /\ calls > 0 => runtime_state.clock = state_before.clock + 1

\* an ElectLeader whose term does not exceed the current term was executed
C5_Witness ==
    /\ last_transition.type = "ElectLeader"
    /\ last_transition.term <= state_before.term
    /\ runtime_state.term = state_before.term
    /\ calls >= 2

\* C6: after any sequence of transitions from the empty State, members holds
\* no node id twice
C6_MembersUnique ==
    /\ NoDuplicates(runtime_state.members)
    /\ NoDuplicates(shadow_model.members)

\* an AddMember of a node that was already a member was executed
C6_Witness ==
    /\ last_transition.type = "AddMember"
    /\ Contains(state_before.members, last_transition.node_id)
    /\ Len(runtime_state.members) = Len(state_before.members)

\* C7: if leader is set, it is an element of members
C7_LeaderInMembers ==
    runtime_state.leader # NoNode =>
        Contains(runtime_state.members, runtime_state.leader)

====
